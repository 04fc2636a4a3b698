------------------------------ MODULE BlogSync ------------------------------
(***************************************************************************)
(* The blog's drafts and the posts in production: blog-sync.mjs --write,     *)
(* publish-blog-post.mjs and stamp-blog-dates.mjs, run by one developer in   *)
(* one checkout, against BlogContentSyncService, while an administrator      *)
(* edits and deletes on the admin screen.                                  *)
(*                                                                         *)
(* A Text is a post's content; the fingerprint of a text stands for the text. *)
(* Categories, dates of publication, series, images, the copies under posts/  *)
(* and the local server (no dates come from it) are left out.  The developer  *)
(* does not touch the drafts while a command runs.                          *)
(***************************************************************************)
EXTENDS SyncBounds

CONSTANT Slug       \* posts

VARIABLES
    post,       \* tb_blog_post: text and updatedAt, or None
    clock,      \* the time of the last save
    draft,      \* drafts/*.md: text, updatedAt and syncHash of the head, or None
    cache,      \* .sync-cache.json: text and updatedAt, or None
    sync,       \* the running command
    edits, writes, faults,
    held        \* history: the texts a draft has had

production == <<post, clock, edits>>
vars == <<production, draft, cache, sync, writes, faults, held>>

Post == [text: Text, at: Nat]
Idle == [pc |-> "idle", only |-> {}, listed |-> [s \in Slug |-> None],
         full |-> [s \in Slug |-> None], push |-> {}, same |-> {}, stamp |-> FALSE]

TypeOK ==
    /\ post \in [Slug -> Post \cup {None}] /\ cache \in [Slug -> Post \cup {None}]
    /\ draft \in [Slug -> [text: Text, at: Nat \cup {None}, hash: Text \cup {None}] \cup {None}]
    /\ sync \in [pc: {"idle", "plan", "push", "stamp"}, only: SUBSET Slug,
                 listed: [Slug -> Nat \cup {None}], full: [Slug -> Post \cup {None}],
                 push: SUBSET Slug, same: SUBSET Slug, stamp: BOOLEAN]
    /\ clock \in Nat
    /\ edits \in 0..MaxEdits /\ writes \in 0..MaxWrites /\ faults \in 0..MaxFaults
    /\ held \in [Slug -> SUBSET Text]

(* A post and its draft, published, with or without updatedAt in the head, or *)
(* nothing yet.                                                             *)
Init ==
    /\ \E old \in [Slug -> Text \cup {None}], dated \in [Slug -> BOOLEAN] :
        /\ post = [s \in Slug |-> IF old[s] = None THEN None ELSE [text |-> old[s], at |-> 1]]
        /\ draft = [s \in Slug |-> IF old[s] = None THEN None
                                   ELSE [text |-> old[s], at |-> IF dated[s] THEN 1 ELSE None,
                                         hash |-> old[s]]]
        /\ held = [s \in Slug |-> {old[s]} \ {None}]
    /\ clock = 1
    /\ cache = [s \in Slug |-> None]
    /\ sync = Idle
    /\ edits = 0 /\ writes = 0 /\ faults = 0

-----------------------------------------------------------------------------
(* The admin screen: the form sends no updatedAt; saving what is there        *)
(* changes nothing.                                                         *)
Admin == edits < MaxEdits /\ edits' = edits + 1
Edit(s, text) ==
    /\ Admin
    /\ post[s] # None => post[s].text # text
    /\ clock' = clock + 1
    /\ post' = [post EXCEPT ![s] = [text |-> text, at |-> clock + 1]]
    /\ UNCHANGED <<draft, cache, sync, writes, faults, held>>
Delete(s) ==
    /\ Admin
    /\ post[s] # None
    /\ post' = [post EXCEPT ![s] = None]
    /\ UNCHANGED <<clock, draft, cache, sync, writes, faults, held>>

-----------------------------------------------------------------------------
(* The developer: write a text, or take over the one in production. *)

Write(s, text) ==
    /\ sync = Idle
    /\ writes < MaxWrites /\ writes' = writes + 1
    /\ draft[s] # None => draft[s].text # text
    /\ draft' = [draft EXCEPT ![s] =
                   IF draft[s] = None THEN [text |-> text, at |-> None, hash |-> None]
                   ELSE [draft[s] EXCEPT !.text = text]]
    /\ held' = [held EXCEPT ![s] = @ \cup {text}]
    /\ UNCHANGED <<production, cache, sync, faults>>
TakeOver(s) == post[s] # None /\ Write(s, post[s].text)

-----------------------------------------------------------------------------
(* blog-sync.mjs *)

End == sync' = Idle

(* Read the drafts and the cache, list the posts.  A post whose draft and     *)
(* updatedAt are those of the cache is the same, unseen.                    *)
Cached(s) ==
    /\ draft[s] # None /\ post[s] # None /\ cache[s] # None
    /\ cache[s] = [text |-> draft[s].text, at |-> post[s].at]
Look(only) ==
    /\ sync = Idle
    /\ sync' = [Idle EXCEPT !.pc = "plan", !.only = only,
                  !.listed = [s \in Slug |-> IF post[s] = None THEN None ELSE post[s].at],
                  !.same = {s \in only : Cached(s)}]
    /\ UNCHANGED <<production, draft, cache, writes, faults, held>>

(* decide *)
Direction(s) ==
    IF sync.listed[s] = None THEN "push"
    ELSE IF draft[s] = None THEN "pull"
    ELSE IF s \in sync.same THEN "same"
    ELSE IF sync.full[s] = None THEN "fetch"
    ELSE IF sync.full[s].text = draft[s].text THEN "same"
    ELSE IF draft[s].at = sync.full[s].at THEN "push" ELSE "conflict"
Going(dir) ==
    {s \in sync.only : /\ draft[s] # None \/ sync.listed[s] # None
                       /\ Direction(s) = dir}

Fetch(s) ==
    /\ sync.pc = "plan" /\ s \in Going("fetch")
    /\ IF post[s] = None THEN End
       ELSE sync' = [sync EXCEPT !.full[s] = post[s]]
    /\ UNCHANGED <<production, draft, cache, writes, faults, held>>

(* A conflict stops everything.  The texts that were fetched and are the same *)
(* go to the cache, with the time of the listing.  A pull writes a copy under *)
(* posts/ and leaves the drafts alone, but all heads are stamped at the end.  *)
Plan ==
    /\ sync.pc = "plan" /\ Going("fetch") = {}
    /\ IF Going("conflict") # {} THEN End /\ UNCHANGED cache
       ELSE /\ sync' = [sync EXCEPT !.pc = "push", !.push = Going("push"),
                                    !.same = Going("same"), !.stamp = Going("pull") # {}]
            /\ cache' = [s \in Slug |->
                           IF s \in Going("same") \ sync.same
                           THEN [text |-> draft[s].text, at |-> sync.listed[s]] ELSE cache[s]]
    /\ UNCHANGED <<production, draft, writes, faults, held>>

(* publish-blog-post.mjs on its own publishes a draft without a comparison. *)
Publish(s) ==
    /\ sync = Idle /\ draft[s] # None
    /\ sync' = [Idle EXCEPT !.pc = "push", !.only = {s}, !.push = {s}]
    /\ UNCHANGED <<production, draft, cache, writes, faults, held>>

(* BlogContentSyncService.compare, under the row's lock: the text that is     *)
(* replaced must be the one the draft was last published or compared with.    *)
Accepts_Unmarked(s) == draft[s].hash \in {None, post[s].text}

Accepts(s) == draft[s].hash = post[s].text

Refuses(s) ==
    IF post[s] = None THEN draft[s].hash # None
    ELSE post[s].text # draft[s].text /\ ~Accepts(s)
Sync(s) ==
    /\ ~Refuses(s)
    /\ IF post[s] # None /\ post[s].text = draft[s].text THEN UNCHANGED <<post, clock>>
       ELSE /\ clock' = clock + 1
            /\ post' = [post EXCEPT ![s] =
                          [text |-> draft[s].text,
                           at |-> IF draft[s].at = None THEN clock + 1 ELSE draft[s].at]]

(* The fingerprint in the answer goes to the head of the draft. *)
Push(s) ==
    /\ sync.pc = "push" /\ s \in sync.push
    /\ Sync(s)
    /\ draft' = [draft EXCEPT ![s].hash = post'[s].text]
    /\ sync' = [sync EXCEPT !.push = @ \ {s}]
    /\ UNCHANGED <<edits, cache, writes, faults, held>>
PushRefused(s) ==
    /\ sync.pc = "push" /\ s \in sync.push /\ Refuses(s)
    /\ End
    /\ UNCHANGED <<production, draft, cache, writes, faults, held>>
PushUnanswered(s) ==
    /\ sync.pc = "push" /\ s \in sync.push
    /\ faults < MaxFaults /\ faults' = faults + 1
    /\ Sync(s)
    /\ End
    /\ UNCHANGED <<edits, draft, cache, writes, held>>

PushDone ==
    /\ sync.pc = "push" /\ sync.push = {}
    /\ IF sync.stamp THEN sync' = [sync EXCEPT !.pc = "stamp"] ELSE End
    /\ UNCHANGED <<production, draft, cache, writes, faults, held>>

(* stamp-blog-dates.mjs, also on its own: every head gets the time its post   *)
(* has in production, whatever its text.                                    *)
Stamp ==
    /\ sync = Idle \/ sync.pc = "stamp"
    /\ draft' = [s \in Slug |-> IF draft[s] = None \/ post[s] = None THEN draft[s]
                                ELSE [draft[s] EXCEPT !.at = post[s].at]]
    /\ End
    /\ UNCHANGED <<production, cache, writes, faults, held>>

Interrupted ==
    /\ sync # Idle
    /\ faults < MaxFaults /\ faults' = faults + 1
    /\ End
    /\ UNCHANGED <<production, draft, cache, writes, held>>

-----------------------------------------------------------------------------
Next ==
    \/ \E s \in Slug :
        \/ \E text \in Text : Edit(s, text) \/ Write(s, text)
        \/ Delete(s) \/ TakeOver(s) \/ Publish(s)
        \/ Fetch(s) \/ Push(s) \/ PushRefused(s) \/ PushUnanswered(s)
    \/ \E only \in SUBSET Slug \ {{}} : Look(only)
    \/ Plan \/ PushDone \/ Stamp \/ Interrupted

Spec == Init /\ [][Next]_vars

-----------------------------------------------------------------------------
(* Properties *)

(* No command replaces a text in production that the draft has never had:    *)
(* whatever is edited while it runs, whichever heads are stamped, and        *)
(* whichever answers were lost, what an administrator wrote is only replaced  *)
(* once the developer has seen it.                                          *)
ReplacesOnlySeen ==
    [][\A s \in Slug :
         (sync.pc = "push" /\ s \in sync.push /\ post'[s] # post[s] /\ edits' = edits
            /\ post[s] # None)
           => post[s].text \in held[s]]_vars

(* blog-sync.mjs, lines 14-17 and 23-25: a post that is taken for the same    *)
(* has the text of its draft; the cache only spares the comparison.          *)
SameIsSame ==
    [][\A s \in sync'.same :
         (sync = Idle /\ sync'.pc = "plan") => post[s].text = draft[s].text]_vars
=============================================================================
