----------------------------- MODULE ContentSync -----------------------------
(***************************************************************************)
(* content-sync.mjs: wiki-sync.mjs and blog-sync.mjs with the same arguments, *)
(* one after the other, whether or not the first one fails.                 *)
(*                                                                         *)
(* The two share no file and no table, so that every behaviour of the pair   *)
(* interleaves one of each: `part` says which of the two is looked at.       *)
(***************************************************************************)
EXTENDS SyncBounds

CONSTANTS WikiSlug, BlogSlug

VARIABLES
    part,
    article, revision, wikiClock, local, git, head, base, backup, dropped, wikiSync,
    post, blogClock, draft, cache, held, blogSync,
    edits, writes, faults

W == INSTANCE WikiSync WITH Slug <- WikiSlug, clock <- wikiClock, sync <- wikiSync
B == INSTANCE BlogSync WITH Slug <- BlogSlug, clock <- blogClock, sync <- blogSync

wiki == <<article, revision, wikiClock, local, git, head, base, backup, dropped, wikiSync>>
blog == <<post, blogClock, draft, cache, held, blogSync>>
vars == <<part, wiki, blog, edits, writes, faults>>

(* The part that is not looked at has no text. *)
Init ==
    /\ part \in {"wiki", "blog"}
    /\ W!Init /\ B!Init
    /\ part = "wiki" => \A s \in BlogSlug : post[s] = None
    /\ part = "blog" => \A s \in WikiSlug : article[s] = None

WikiStep == part = "wiki" /\ W!Next /\ UNCHANGED <<part, blog>>
BlogStep == part = "blog" /\ B!Next /\ UNCHANGED <<part, wiki>>
Next == WikiStep \/ BlogStep

Spec == Init /\ [][Next]_vars
FairSpec == Spec /\ (part = "wiki" => W!Fairness)

TypeOK == W!TypeOK /\ B!TypeOK

-----------------------------------------------------------------------------
(* Properties of the parts *)

(* The recorded base is never right about the time of a text and wrong about  *)
(* the text.                                                                *)
BaseIsTrue == W!BaseIsTrue

(* wiki-sync.mjs never destroys the last copy of a text. *)
NothingIsLost == W!NothingIsLost

(* A push to the wiki replaces the text of the last sync, unless another was  *)
(* saved after the listing.                                                 *)
PushesOverKnown == W!PushesOverKnown

(* Checkout and production agree in the end, or somebody has to decide. *)
SyncSettles == part = "wiki" => W!SyncSettles

(* A push to the blog replaces only texts that the draft has had. *)
ReplacesOnlySeen == B!ReplacesOnlySeen

(* What blog-sync.mjs takes for the same is the same. *)
SameIsSame == B!SameIsSame
=============================================================================
