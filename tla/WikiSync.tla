------------------------------ MODULE WikiSync ------------------------------
(***************************************************************************)
(* The wiki's texts in the repository and in production: wiki-sync.mjs --write, *)
(* run by one developer in one checkout, against ArticleService, while an    *)
(* administrator edits, reverts and deletes on the admin screen.            *)
(*                                                                         *)
(* A Text is everything the comparison hashes.  Tabs, featured articles,     *)
(* previews (no --write), metadata that is written apart from the body and   *)
(* the checks of the token are left out.  The developer does not touch the   *)
(* files while the command runs.  A save is one transaction; of two that     *)
(* overlap the second fails at `unique (slug, version)` and changes nothing.  *)
(***************************************************************************)
EXTENDS SyncBounds

CONSTANT Slug       \* articles

VARIABLES
    article,        \* tb_article: text, updatedAt and version, or None
    revision,       \* tb_revision: the texts replaced, by version
    clock,          \* the time of the last save
    local,          \* the manifest and articles/*.md: texts, or None
    git,            \* every text committed; the last commit is `head`
    head,
    base,           \* sync-state.json: text and updatedAt, or None
    backup,         \* .local-backups
    sync,           \* the running command
    edits, writes, faults,
    dropped         \* history: texts deleted by the administrator

production == <<article, revision, clock, dropped, edits>>
checkout == <<local, git, head, writes>>
vars == <<production, checkout, base, backup, sync, faults>>

Version == [text: Text, at: Nat]
Idle == [pc |-> "idle", only |-> {}, listed |-> [s \in Slug |-> None],
         full |-> [s \in Slug |-> None], base |-> [s \in Slug |-> None],
         push |-> {}, pull |-> {}, same |-> {}, new |-> [s \in Slug |-> None]]

TypeOK ==
    /\ article \in [Slug -> [text: Text, at: Nat, version: Nat] \cup {None}]
    /\ revision \in [Slug -> SUBSET [text: Text, version: Nat]]
    /\ clock \in Nat /\ edits \in 0..MaxEdits
    /\ local \in [Slug -> Text \cup {None}] /\ head \in [Slug -> Text \cup {None}]
    /\ git \in [Slug -> SUBSET Text] /\ backup \in [Slug -> SUBSET Text]
    /\ base \in [Slug -> Version \cup {None}]
    /\ sync \in [pc: {"idle", "plan", "pull", "backup", "push"}, only: SUBSET Slug,
                 listed: [Slug -> Nat \cup {None}],
                 full: [Slug -> Version \cup {None}], base: [Slug -> Version \cup {None}],
                 push: SUBSET Slug, pull: SUBSET Slug, same: SUBSET Slug,
                 new: [Slug -> Text \cup {None}]]
    /\ writes \in 0..MaxWrites /\ faults \in 0..MaxFaults
    /\ dropped \in [Slug -> SUBSET Text]

(* One article that everybody agrees on, or nothing at all. *)
Init ==
    /\ \E old \in [Slug -> Text \cup {None}] :
        /\ article = [s \in Slug |-> IF old[s] = None THEN None
                                     ELSE [text |-> old[s], at |-> 1, version |-> 1]]
        /\ local = old /\ head = old
        /\ git = [s \in Slug |-> {old[s]} \ {None}]
        /\ base = [s \in Slug |-> IF old[s] = None THEN None
                                  ELSE [text |-> old[s], at |-> 1]]
    /\ clock = 1
    /\ revision = [s \in Slug |-> {}]
    /\ backup = [s \in Slug |-> {}] /\ dropped = [s \in Slug |-> {}]
    /\ sync = Idle
    /\ edits = 0 /\ writes = 0 /\ faults = 0

-----------------------------------------------------------------------------
(* ArticleService *)

(* The text that is replaced goes to the revisions under its version; there  *)
(* is no place for it when a deleted article left a revision of that number. *)
CanSave(s) == article[s] # None => \A r \in revision[s] : r.version # article[s].version
Save(s, text) ==
    /\ CanSave(s)
    /\ clock' = clock + 1
    /\ article' = [article EXCEPT ![s] =
                     [text |-> text, at |-> clock + 1,
                      version |-> IF article[s] = None THEN 1 ELSE article[s].version + 1]]
    /\ revision' = [revision EXCEPT ![s] =
                     IF article[s] = None THEN @
                     ELSE @ \cup {[text |-> article[s].text, version |-> article[s].version]}]
    /\ UNCHANGED dropped

(* The admin screen *)
Admin == edits < MaxEdits /\ edits' = edits + 1
Edit(s, text) == Admin /\ Save(s, text) /\ UNCHANGED <<checkout, base, backup, sync, faults>>
Revert(s) ==
    /\ Admin
    /\ article[s] # None
    /\ \E r \in revision[s] : Save(s, r.text)
    /\ UNCHANGED <<checkout, base, backup, sync, faults>>
Delete(s) ==
    /\ Admin
    /\ article[s] # None
    /\ article' = [article EXCEPT ![s] = None]
    /\ dropped' = [dropped EXCEPT ![s] = @ \cup {article[s].text}]
    /\ UNCHANGED <<revision, clock, checkout, base, backup, sync, faults>>

-----------------------------------------------------------------------------
(* The developer *)

Write(s, text) ==
    /\ sync = Idle
    /\ writes < MaxWrites /\ writes' = writes + 1
    /\ text # local[s]
    /\ local' = [local EXCEPT ![s] = text]
    /\ UNCHANGED <<production, git, head, base, backup, sync, faults>>

Commit ==
    /\ sync = Idle
    /\ local # head
    /\ head' = local
    /\ git' = [s \in Slug |-> git[s] \cup ({local[s]} \ {None})]
    /\ UNCHANGED <<production, local, writes, base, backup, sync, faults>>

-----------------------------------------------------------------------------
(* wiki-sync.mjs *)

(* The command ends without writing sync-state.json. *)
Fail == sync' = Idle /\ UNCHANGED base

(* Read the files and the state, list the articles with their updatedAt. *)
Look(only) ==
    /\ sync = Idle
    /\ sync' = [Idle EXCEPT !.pc = "plan", !.only = only, !.base = base,
                  !.listed = [s \in Slug |-> IF article[s] = None THEN None ELSE article[s].at]]
    /\ UNCHANGED <<production, checkout, base, backup, faults>>

(* decide: which way a text goes, by what is known so far.  The text in      *)
(* production is only known once it was fetched.                            *)
Unknown(s) == sync.full[s] = None
LocalChanged(s) == local[s] # sync.base[s].text

ProdChanged_Never(s) == FALSE

ProdChanged(s) ==
    (IF Unknown(s) THEN sync.listed[s] ELSE sync.full[s].at) # sync.base[s].at

Diverged_Pull(s) == "pull"

Diverged(s) == IF LocalChanged(s) THEN "conflict" ELSE "pull"

Direction(s) ==
    IF sync.listed[s] = None THEN "push"
    ELSE IF local[s] = None THEN "pull"
    ELSE IF sync.base[s] # None /\ ~ProdChanged(s)
         THEN IF LocalChanged(s) THEN "push" ELSE "same"
    ELSE IF Unknown(s) THEN "fetch"
    ELSE IF sync.full[s].text = local[s] THEN "same"
    ELSE IF sync.base[s] = None THEN "conflict" ELSE Diverged(s)

(* Neither side has the slug: it is in no plan. *)
Going(dir) ==
    {s \in sync.only : /\ local[s] # None \/ sync.listed[s] # None
                       /\ Direction(s) = dir}

(* GET /articles/<slug>; it may be gone by now. *)
Get(s) == [text |-> article[s].text, at |-> article[s].at]
Fetch(s) ==
    /\ sync.pc = "plan" /\ s \in Going("fetch")
    /\ IF article[s] = None THEN Fail
       ELSE sync' = [sync EXCEPT !.full[s] = Get(s)] /\ UNCHANGED base
    /\ UNCHANGED <<production, checkout, backup, faults>>

(* A conflict stops everything. *)
Plan ==
    /\ sync.pc = "plan" /\ Going("fetch") = {}
    /\ IF Going("conflict") # {} THEN Fail
       ELSE /\ sync' = [sync EXCEPT !.pc = "pull", !.push = Going("push"),
                          !.pull = Going("pull"), !.same = Going("same")]
            /\ UNCHANGED base
    /\ UNCHANGED <<production, checkout, backup, faults>>

(* The body is written at once, the manifest when all bodies are: a text     *)
(* without an entry there does not count as local.                          *)
PulledBase_OldText(s, got) ==
    [text |-> IF local[s] = None THEN got.text ELSE local[s], at |-> got.at]

PulledBase(s, got) == got

Pull(s) ==
    /\ sync.pc = "pull" /\ s \in sync.pull
    /\ IF Unknown(s) /\ article[s] = None
       THEN Fail /\ UNCHANGED local
       ELSE LET got == IF Unknown(s) THEN Get(s) ELSE sync.full[s]
            IN /\ sync' = [sync EXCEPT !.pull = @ \ {s}, !.base[s] = PulledBase(s, got),
                                       !.new[s] = IF local[s] = None THEN got.text ELSE None]
               /\ local' = IF local[s] = None THEN local ELSE [local EXCEPT ![s] = got.text]
               /\ UNCHANGED base
    /\ UNCHANGED <<production, git, head, writes, backup, faults>>

PullDone ==
    /\ sync.pc = "pull" /\ sync.pull = {}
    /\ local' = [s \in Slug |-> IF sync.new[s] = None THEN local[s] ELSE sync.new[s]]
    /\ sync' = [sync EXCEPT !.pc = IF sync.push = {} THEN "push" ELSE "backup",
                            !.new = Idle.new]
    /\ UNCHANGED <<production, git, head, writes, base, backup, faults>>

(* Uncommitted texts stop the command, those it has just pulled too; then a  *)
(* copy of what will be overwritten.                                        *)
Backup ==
    /\ sync.pc = "backup"
    /\ LET risky == {s \in sync.push : sync.listed[s] # None}
       IN IF local # head \/ \E s \in risky : article[s] = None
          THEN Fail /\ UNCHANGED backup
          ELSE /\ backup' = [s \in Slug |-> IF s \in risky THEN backup[s] \cup {article[s].text}
                                            ELSE backup[s]]
               /\ sync' = [sync EXCEPT !.pc = "push"]
               /\ UNCHANGED base
    /\ UNCHANGED <<production, checkout, faults>>

(* POST /internal/content-sync/articles, whatever is there by now. *)
Push(s) ==
    /\ sync.pc = "push" /\ s \in sync.push
    /\ Save(s, local[s])
    /\ sync' = [sync EXCEPT !.push = @ \ {s},
                            !.base[s] = [text |-> local[s], at |-> clock + 1]]
    /\ UNCHANGED <<edits, checkout, base, backup, faults>>
PushRefused(s) ==
    /\ sync.pc = "push" /\ s \in sync.push /\ ~CanSave(s)
    /\ Fail
    /\ UNCHANGED <<production, checkout, backup, faults>>
PushUnanswered(s) ==
    /\ sync.pc = "push" /\ s \in sync.push
    /\ faults < MaxFaults /\ faults' = faults + 1
    /\ Save(s, local[s])
    /\ Fail
    /\ UNCHANGED <<edits, checkout, backup>>

(* Texts that are the same get their base as well; then the state is written. *)
Rebased_Never(s) == sync.base[s]

Rebased(s) ==
    IF s \notin sync.same THEN sync.base[s]
    ELSE [text |-> local[s], at |-> IF Unknown(s) THEN sync.listed[s] ELSE sync.full[s].at]

SaveState ==
    /\ sync.pc = "push" /\ sync.push = {}
    /\ base' = [s \in Slug |-> Rebased(s)]
    /\ sync' = Idle
    /\ UNCHANGED <<production, checkout, backup, faults>>

(* A request fails, or the command is killed, anywhere. *)
Interrupted ==
    /\ sync # Idle
    /\ faults < MaxFaults /\ faults' = faults + 1
    /\ Fail
    /\ UNCHANGED <<production, checkout, backup>>

-----------------------------------------------------------------------------
Command ==
    \/ Plan \/ PullDone \/ Backup \/ SaveState
    \/ \E s \in Slug : Fetch(s) \/ Pull(s) \/ Push(s) \/ PushRefused(s)

Next ==
    \/ \E s \in Slug : \/ \E text \in Text : Edit(s, text) \/ Write(s, text)
                       \/ Revert(s) \/ Delete(s) \/ PushUnanswered(s)
    \/ Commit \/ Interrupted
    \/ \E only \in SUBSET Slug \ {{}} : Look(only)
    \/ Command

Spec == Init /\ [][Next]_vars

(* The developer commits and runs the command for all texts again; a command *)
(* that runs goes on.                                                       *)
Fairness == WF_vars(Command) /\ SF_vars(Commit) /\ SF_vars(Look(Slug))
FairSpec == Spec /\ Fairness

-----------------------------------------------------------------------------
(* Properties *)

(* wiki-sync.mjs, lines 13-17: a text in production has changed if and only  *)
(* if its updatedAt has; the base is never right about the time and wrong    *)
(* about the text, so that a push does not have to look at what it replaces.  *)
BaseIsTrue ==
    \A s \in Slug :
        (base[s] # None /\ article[s] # None /\ base[s].at = article[s].at)
            => base[s].text = article[s].text

(* No step of the command destroys the last copy of a text: what it replaces *)
(* in production or in the checkout is in a revision, a commit, a backup or   *)
(* the other place, or the administrator has deleted it.                    *)
Kept(s) ==
    ({local[s]} \ {None}) \cup (IF article[s] = None THEN {} ELSE {article[s].text})
        \cup {r.text : r \in revision[s]} \cup git[s] \cup backup[s] \cup dropped[s]
NothingIsLost ==
    [][sync # Idle => \A s \in Slug : Kept(s) \subseteq Kept(s)']_vars

(* A push replaces the text of the last sync, unless an administrator saved  *)
(* another after the command had listed the articles: an edit on the admin    *)
(* screen does not vanish at the next sync.                                 *)
PushesOverKnown ==
    [][\A s \in Slug :
         (sync.pc = "push" /\ s \in sync.push /\ article'[s] # article[s] /\ article[s] # None
            /\ article'[s] # None /\ sync'.push # sync.push)
           => \/ base[s] # None /\ article[s].text = base[s].text
              \/ sync.listed[s] = None \/ article[s].at > sync.listed[s]]_vars

(* When edits end and the developer commits and syncs again, checkout and    *)
(* production agree, or there is a conflict for a person to decide, or a      *)
(* push that is refused for ever: the article was deleted and created again,  *)
(* and the revision of its number exists.                                   *)
Aligned(s) ==
    IF local[s] = None THEN article[s] = None
    ELSE /\ article[s] # None /\ article[s].text = local[s]
         /\ base[s] = [text |-> local[s], at |-> article[s].at]
Conflict(s) ==
    /\ local[s] # None /\ article[s] # None /\ local[s] # article[s].text
    /\ base[s] # None => local[s] # base[s].text /\ article[s].at # base[s].at
Refused(s) == local[s] # None /\ ~CanSave(s)
SyncSettles ==
    <>[]((\A s \in Slug : Aligned(s)) \/ \E s \in Slug : Conflict(s) \/ Refused(s))
=============================================================================
