-------------------------- MODULE WikiSync_proofs --------------------------
(***************************************************************************)
(* Proofs about WikiSync, for any number of articles, texts, saves and faults: *)
(* its types; that the recorded base is never right about the time of a text  *)
(* and wrong about the text; that the command never destroys the last copy of *)
(* a text; and that a push replaces what the last sync had seen.             *)
(***************************************************************************)
EXTENDS WikiSync, TLAPS

Article == [text: Text, at: Nat, version: Nat]

(* What is known of an article, v, against the article itself, a: v is no     *)
(* newer than the clock c, and right about the text when right about the time. *)
TrueOf(v, a, c) ==
    v # None => /\ v.at <= c
                /\ a # None /\ v.at = a.at => v.text = a.text

BaseOK == \A s \in Slug : TrueOf(base[s], article[s], clock)
ArticleOK == \A s \in Slug : article[s] # None => article[s].at <= clock

(* What the running command knows, and what it is going to do: what is the    *)
(* same is neither pulled nor pushed, and its new base is one known already.   *)
SeenOK ==
    \A s \in Slug : /\ TrueOf(sync.base[s], article[s], clock)
                    /\ TrueOf(sync.full[s], article[s], clock)
SameOK ==
    \A s \in sync.same :
        /\ s \notin sync.pull \cup sync.push /\ sync.new[s] = None
        /\ Rebased(s) \in {sync.base[s], sync.full[s]} \ {None}
PlanOK == sync.pc = "plan" => sync.same = {} /\ sync.new = Idle.new
PushOK == \A s \in sync.push : local[s] # None

Running ==
    [pc: {"idle", "plan", "pull", "backup", "push"}, only: SUBSET Slug,
     listed: [Slug -> Nat \cup {None}],
     full: [Slug -> Version \cup {None}], base: [Slug -> Version \cup {None}],
     push: SUBSET Slug, pull: SUBSET Slug, same: SUBSET Slug,
     new: [Slug -> Text \cup {None}]]
CommandOK == sync \in Running /\ SeenOK /\ SameOK /\ PlanOK /\ PushOK

(* The types of everything else. *)
Types ==
    /\ article \in [Slug -> Article \cup {None}]
    /\ revision \in [Slug -> SUBSET [text: Text, version: Nat]]
    /\ clock \in Nat /\ edits \in 0..MaxEdits
    /\ local \in [Slug -> Text \cup {None}] /\ head \in [Slug -> Text \cup {None}]
    /\ git \in [Slug -> SUBSET Text] /\ backup \in [Slug -> SUBSET Text]
    /\ base \in [Slug -> Version \cup {None}]
    /\ writes \in 0..MaxWrites /\ faults \in 0..MaxFaults
    /\ dropped \in [Slug -> SUBSET Text]

Inv == Types /\ BaseOK /\ ArticleOK /\ CommandOK

LEMMA TypeParts == TypeOK <=> Types /\ sync \in Running
  BY DEF TypeOK, Types, Article, Running

LEMMA NoneIsApart == None \notin Text /\ None \notin Nat
  BY NoneAssumption

LEMMA Counts ==
  ASSUME NEW n, NEW m \in Nat, n \in 0..m, n < m
  PROVE  n + 1 \in 0..m
  OBVIOUS

LEMMA IdleIsCommand == Idle \in Running
  BY DEF Idle, Running

(* A command that has ended, or not begun, knows nothing. *)
LEMMA IdleIsFine == ASSUME sync' = Idle PROVE CommandOK'
  BY IdleIsCommand DEF Idle, CommandOK, SeenOK, SameOK, PlanOK, PushOK, TrueOf

LEMMA InitInv == Init => Inv
  <1> SUFFICES ASSUME Init PROVE Inv
    OBVIOUS
  <1>1. PICK old \in [Slug -> Text \cup {None}] :
          /\ article = [s \in Slug |-> IF old[s] = None THEN None
                                       ELSE [text |-> old[s], at |-> 1, version |-> 1]]
          /\ local = old /\ head = old
          /\ git = [s \in Slug |-> {old[s]} \ {None}]
          /\ base = [s \in Slug |-> IF old[s] = None THEN None
                                    ELSE [text |-> old[s], at |-> 1]]
    BY DEF Init
  <1>2. /\ article \in [Slug -> Article \cup {None}]
        /\ base \in [Slug -> Version \cup {None}]
        /\ git \in [Slug -> SUBSET Text]
    BY <1>1 DEF Article, Version
  <1>3. Types
    BY <1>1, <1>2, BoundAssumption DEF Init, Types
  <1>4. BaseOK /\ ArticleOK
    BY <1>1 DEF Init, BaseOK, ArticleOK, TrueOf
  <1>5. CommandOK
    BY IdleIsCommand DEF Init, Idle, CommandOK, SeenOK, SameOK, PlanOK, PushOK, TrueOf
  <1> QED BY <1>3, <1>4, <1>5 DEF Inv

-----------------------------------------------------------------------------
(* What a step may do to production. *)
Moves ==
    /\ article' \in [Slug -> Article \cup {None}]
    /\ clock' \in Nat /\ clock <= clock'
    /\ \A s \in Slug : \/ article'[s] = article[s] \/ article'[s] = None
                       \/ clock < article'[s].at /\ article'[s].at <= clock'

LEMMA MovesKeepArticles == Inv /\ Moves => ArticleOK'
  <1> SUFFICES ASSUME Inv, Moves, NEW s \in Slug, article'[s] # None
               PROVE  article'[s].at <= clock'
    BY DEF ArticleOK
  <1>1. CASE article'[s] = article[s]
    <2>1. article[s] # None
      BY <1>1
    <2>2. article[s].at \in Nat /\ article[s].at <= clock /\ clock \in Nat
      BY <2>1 DEF Inv, Types, ArticleOK, Article
    <2>3. clock' \in Nat /\ clock <= clock'
      BY DEF Moves
    <2>4. article[s].at <= clock'
      BY <2>2, <2>3
    <2> QED BY <2>4, <1>1
  <1>2. CASE article'[s].at <= clock'
    BY <1>2
  <1> QED BY <1>1, <1>2 DEF Moves

(* What is known stays true when an article is kept, deleted or saved at a    *)
(* later time.                                                              *)
LEMMA MovesKeepTruth ==
  ASSUME Inv, Moves, NEW s \in Slug
  PROVE  /\ TrueOf(base[s], article'[s], clock')
         /\ TrueOf(sync.base[s], article'[s], clock')
         /\ TrueOf(sync.full[s], article'[s], clock')
  <1>1. article'[s] # None => article'[s].at \in Nat
    BY DEF Moves, Article
  <1>2. \/ article'[s] = article[s] \/ article'[s] = None
        \/ clock < article'[s].at /\ article'[s].at \in Nat
    BY <1>1 DEF Moves
  <1>3. clock \in Nat /\ clock' \in Nat /\ clock <= clock'
    BY DEF Moves, Inv, Types
  <1>4. /\ base[s] \in Version \cup {None} /\ sync.base[s] \in Version \cup {None}
        /\ sync.full[s] \in Version \cup {None}
    BY DEF Inv, Types, CommandOK, Running
  <1>5. /\ TrueOf(base[s], article[s], clock) /\ TrueOf(sync.base[s], article[s], clock)
        /\ TrueOf(sync.full[s], article[s], clock)
    BY DEF Inv, BaseOK, CommandOK, SeenOK
  <1>6. ASSUME NEW v \in Version \cup {None}, TrueOf(v, article[s], clock)
        PROVE  TrueOf(v, article'[s], clock')
    <2>1. CASE article'[s] = article[s]
      <3>1. \A a : \A c, d \in Nat : TrueOf(v, a, c) /\ c <= d => TrueOf(v, a, d)
        BY <1>6 DEF TrueOf, Version
      <3> QED BY <1>3, <1>6, <2>1, <3>1
    <2>2. CASE article'[s] = None
      BY <1>3, <1>6, <2>2 DEF TrueOf, Version
    <2>3. CASE clock < article'[s].at /\ article'[s].at \in Nat
      BY <1>3, <1>6, <2>3 DEF TrueOf, Version
    <2> QED BY <1>2, <2>1, <2>2, <2>3
  <1> QED BY <1>4, <1>5, <1>6

LEMMA QuietMoves == Inv /\ UNCHANGED <<article, clock>> => Moves
  BY DEF Inv, Types, Moves

(* ArticleService.save *)
LEMMA SaveMoves ==
  ASSUME NEW s \in Slug, NEW text \in Text, Inv, Save(s, text)
  PROVE  /\ Moves /\ revision' \in [Slug -> SUBSET [text: Text, version: Nat]]
         /\ dropped' = dropped /\ clock' = clock + 1
         /\ article'[s].text = text /\ article'[s].at = clock + 1
  <1> DEFINE version == IF article[s] = None THEN 1 ELSE article[s].version + 1
             new == [text |-> text, at |-> clock + 1, version |-> version]
  <1>1. clock \in Nat /\ article \in [Slug -> Article \cup {None}]
    BY DEF Inv, Types
  <1>2. version \in Nat
    BY <1>1 DEF Article
  <1> HIDE DEF version
  <1>3. new \in Article /\ new.text = text /\ new.at = clock + 1
    BY <1>1, <1>2 DEF Article
  <1>4. article' = [article EXCEPT ![s] = new] /\ clock' = clock + 1 /\ dropped' = dropped
    BY DEF Save, version
  <1> HIDE DEF new
  <1>5. Moves
    BY <1>1, <1>3, <1>4 DEF Moves
  <1>6. revision' \in [Slug -> SUBSET [text: Text, version: Nat]]
    <2>1. article[s] # None => [text |-> article[s].text, version |-> article[s].version]
                                 \in [text: Text, version: Nat]
      BY <1>1 DEF Article
    <2> QED BY <2>1 DEF Save, Inv, Types
  <1> QED BY <1>1, <1>3, <1>4, <1>5, <1>6

(* The command is not touched by a step that leaves it and the files alone. *)
LEMMA CommandRests ==
  ASSUME Inv, Moves, sync' = sync, local' = local
  PROVE  CommandOK'
  <1>1. SeenOK'
    BY MovesKeepTruth DEF SeenOK
  <1> QED BY <1>1 DEF Inv, CommandOK, SameOK, PlanOK, PushOK, Rebased, Unknown

LEMMA BaseRests ==
  ASSUME Inv, Moves, base' = base
  PROVE  BaseOK' /\ ArticleOK'
  BY MovesKeepTruth, MovesKeepArticles DEF BaseOK

-----------------------------------------------------------------------------
LEMMA AdminInv ==
  ASSUME Inv, NEW s \in Slug, (\E text \in Text : Edit(s, text)) \/ Revert(s) \/ Delete(s)
  PROVE  Inv'
  <1>1. edits' \in 0..MaxEdits
    BY BoundAssumption, Counts DEF Inv, Types, Edit, Revert, Delete, Admin
  <1>2. CASE (\E text \in Text : Edit(s, text)) \/ Revert(s)
    <2>1. PICK text \in Text : Save(s, text)
      BY <1>2 DEF Edit, Revert, Inv, Types
    <2>2. UNCHANGED <<checkout, base, backup, sync, faults>>
      BY <1>2 DEF Edit, Revert
    <2>3. Types'
      BY <1>1, <2>1, <2>2, SaveMoves DEF Inv, Types, Moves, checkout
    <2> QED BY <2>1, <2>2, <2>3, SaveMoves, CommandRests, BaseRests DEF Inv, checkout
  <1>3. CASE Delete(s)
    <2>1. Moves
      BY <1>3 DEF Delete, Moves, Inv, Types
    <2>2. article[s].text \in Text
      BY <1>3 DEF Delete, Inv, Types, Article
    <2>3. Types'
      BY <1>1, <1>3, <2>1, <2>2 DEF Delete, Inv, Types, Moves, checkout
    <2> QED BY <1>3, <2>1, <2>3, CommandRests, BaseRests DEF Delete, Inv, checkout
  <1> QED BY <1>2, <1>3

LEMMA DeveloperInv ==
  ASSUME Inv, Commit \/ \E s \in Slug, text \in Text : Write(s, text)
  PROVE  Inv'
  <1>1. sync' = Idle /\ base' = base /\ UNCHANGED <<article, clock>>
    BY DEF Commit, Write, production
  <1>2. Types'
    <2>1. CASE Commit
      BY <2>1 DEF Commit, Inv, Types, production
    <2>2. CASE \E s \in Slug, text \in Text : Write(s, text)
      BY <2>2, BoundAssumption, Counts DEF Write, Inv, Types, production
    <2> QED BY <2>1, <2>2
  <1> QED BY <1>1, <1>2, QuietMoves, BaseRests, IdleIsFine DEF Inv

(* A command that fails, wherever it is. *)
LEMMA FailInv ==
  ASSUME Inv, Moves, Types', Fail
  PROVE  Inv'
  BY BaseRests, IdleIsFine DEF Fail, Inv

-----------------------------------------------------------------------------
(* wiki-sync.mjs *)

LEMMA LookInv ==
  ASSUME Inv, NEW only \in SUBSET Slug, Look(only)
  PROVE  Inv'
  <1>1. /\ sync' = [Idle EXCEPT !.pc = "plan", !.only = only, !.base = base,
                      !.listed = [s \in Slug |-> IF article[s] = None THEN None
                                                 ELSE article[s].at]]
        /\ UNCHANGED <<production, checkout, base, backup, faults>>
    BY DEF Look
  <1>2. [s \in Slug |-> IF article[s] = None THEN None ELSE article[s].at]
          \in [Slug -> Nat \cup {None}]
    BY DEF Inv, Types, Article
  <1>3. sync' \in Running
    BY <1>1, <1>2, IdleIsCommand DEF Running, Inv, Types
  <1>4. /\ sync'.base = base /\ sync'.full = Idle.full /\ sync'.same = {}
        /\ sync'.push = {} /\ sync'.new = Idle.new
    BY <1>1 DEF Idle
  <1>5. CommandOK'
    BY <1>1, <1>3, <1>4 DEF CommandOK, SeenOK, SameOK, PlanOK, PushOK, TrueOf, Idle, Inv, BaseOK,
       production
  <1>6. Types'
    BY <1>1 DEF Inv, Types, production, checkout
  <1> QED BY <1>1, <1>5, <1>6, QuietMoves, BaseRests DEF Inv, production

LEMMA GetIsVersion ==
  ASSUME Inv, NEW s \in Slug, article[s] # None
  PROVE  Get(s) \in Version /\ TrueOf(Get(s), article[s], clock)
  BY DEF Get, Version, TrueOf, Inv, Types, Article, ArticleOK

LEMMA FetchInv ==
  ASSUME Inv, NEW s \in Slug, Fetch(s)
  PROVE  Inv'
  <1>1. Types' /\ Moves /\ UNCHANGED <<article, clock, local>>
    BY QuietMoves DEF Fetch, Fail, Inv, Types, production, checkout
  <1>2. CASE article[s] = None
    BY <1>1, <1>2, FailInv DEF Fetch
  <1>3. CASE article[s] # None
    <2>1. sync' = [sync EXCEPT !.full[s] = Get(s)] /\ base' = base
      BY <1>3 DEF Fetch
    <2>2. sync \in Running /\ SeenOK /\ PlanOK /\ PushOK /\ sync.pc = "plan"
      BY DEF Inv, CommandOK, Fetch
    <2>3. sync' \in Running
      BY <1>3, <2>1, <2>2, GetIsVersion DEF Running
    <2>4. /\ sync'.base = sync.base /\ sync'.full = [sync.full EXCEPT ![s] = Get(s)]
          /\ sync'.same = sync.same /\ sync'.push = sync.push /\ sync'.new = sync.new
      BY <2>1, <2>2 DEF Running
    <2>5. SeenOK'
      BY <1>1, <1>3, <2>2, <2>4, GetIsVersion DEF SeenOK, Running
    <2>6. CommandOK'
      BY <1>1, <2>2, <2>3, <2>4, <2>5 DEF CommandOK, SameOK, PlanOK, PushOK
    <2> QED BY <1>1, <2>1, <2>6, BaseRests DEF Inv
  <1> QED BY <1>2, <1>3

(* What is the same is known by its base or was fetched. *)
LEMMA SameIsKnown ==
  ASSUME Inv, NEW s \in Going("same")
  PROVE  /\ s \in Slug /\ local[s] # None
         /\ LET r == [text |-> local[s],
                      at |-> IF Unknown(s) THEN sync.listed[s] ELSE sync.full[s].at]
            IN r \in {sync.base[s], sync.full[s]} \ {None}
  <1>1. /\ s \in Slug /\ local[s] # None
        /\ \/ sync.base[s] # None /\ ~ProdChanged(s) /\ ~LocalChanged(s)
           \/ ~Unknown(s) /\ sync.full[s].text = local[s]
    BY DEF Going, Direction, Diverged, Inv, CommandOK, Running
  <1>2. sync.base[s] \in Version \cup {None} /\ sync.full[s] \in Version \cup {None}
    BY <1>1 DEF Inv, CommandOK, Running
  <1>3. CASE sync.base[s] # None /\ ~ProdChanged(s) /\ ~LocalChanged(s)
    <2>1. [text |-> local[s], at |-> IF Unknown(s) THEN sync.listed[s] ELSE sync.full[s].at]
            = sync.base[s]
      BY <1>2, <1>3 DEF ProdChanged, LocalChanged, Version
    <2> QED BY <1>1, <1>3, <2>1
  <1>4. CASE ~Unknown(s) /\ sync.full[s].text = local[s]
    <2>1. [text |-> local[s], at |-> sync.full[s].at] = sync.full[s] /\ sync.full[s] # None
      BY <1>2, <1>4 DEF Unknown, Version
    <2> QED BY <1>1, <1>4, <2>1
  <1> QED BY <1>1, <1>3, <1>4

LEMMA PlanInv ==
  ASSUME Inv, Plan
  PROVE  Inv'
  <1>1. Types' /\ Moves /\ UNCHANGED <<article, clock, local>>
    BY QuietMoves DEF Plan, Fail, Inv, Types, production, checkout
  <1>2. CASE Going("conflict") # {}
    BY <1>1, <1>2, FailInv DEF Plan
  <1>3. CASE Going("conflict") = {}
    <2>1. base' = base
          /\ sync' = [sync EXCEPT !.pc = "pull", !.push = Going("push"),
                                  !.pull = Going("pull"), !.same = Going("same")]
      BY <1>3 DEF Plan
    <2>2. sync \in Running /\ SeenOK /\ PlanOK /\ sync.pc = "plan"
      BY DEF Inv, CommandOK, Plan
    <2>3. \A dir : Going(dir) \subseteq Slug
      BY <2>2 DEF Going, Running
    <2>4. sync' \in Running
      BY <2>1, <2>2, <2>3 DEF Running
    <2>5. /\ sync'.base = sync.base /\ sync'.full = sync.full /\ sync'.listed = sync.listed
          /\ sync'.same = Going("same") /\ sync'.push = Going("push")
          /\ sync'.pull = Going("pull") /\ sync'.new = sync.new /\ sync'.pc = "pull"
      BY <2>1, <2>2 DEF Running
    <2>6. SeenOK'
      BY <1>1, <2>2, <2>5 DEF SeenOK
    <2>7. SameOK'
      <3> SUFFICES ASSUME NEW s \in Going("same")
                   PROVE  /\ s \notin Going("pull") \cup Going("push") /\ sync.new[s] = None
                          /\ Rebased(s)' \in {sync.base[s], sync.full[s]} \ {None}
        BY <2>5 DEF SameOK
      <3>1. s \notin Going("pull") \cup Going("push")
        BY DEF Going
      <3>2. sync.new[s] = None
        BY <2>2, SameIsKnown DEF PlanOK, Idle
      <3>3. Rebased(s)' = [text |-> local[s],
                           at |-> IF Unknown(s) THEN sync.listed[s] ELSE sync.full[s].at]
        BY <1>1, <2>5 DEF Rebased, Unknown
      <3> QED BY <3>1, <3>2, <3>3, SameIsKnown
    <2>8. PushOK'
      <3>1. \A s \in Going("push") : local[s] # None
        BY DEF Going, Direction
      <3> QED BY <1>1, <2>5, <3>1 DEF PushOK
    <2>9. CommandOK'
      BY <2>4, <2>5, <2>6, <2>7, <2>8 DEF CommandOK, PlanOK
    <2> QED BY <1>1, <2>1, <2>9, BaseRests DEF Inv
  <1> QED BY <1>2, <1>3

LEMMA PullInv ==
  ASSUME Inv, NEW s \in Slug, Pull(s)
  PROVE  Inv'
  <1>1. Moves /\ UNCHANGED <<article, clock, revision, dropped, edits, git, head, writes, backup,
                             faults>> /\ base' = base
    BY QuietMoves DEF Pull, Fail, Inv, production
  <1>2. CASE Unknown(s) /\ article[s] = None
    <2>1. Types' /\ Fail
      BY <1>1, <1>2 DEF Pull, Inv, Types
    <2> QED BY <1>1, <2>1, FailInv
  <1>3. CASE ~(Unknown(s) /\ article[s] = None)
    <2> DEFINE got == IF Unknown(s) THEN Get(s) ELSE sync.full[s]
               new == IF local[s] = None THEN got.text ELSE None
    <2>1. /\ sync \in Running /\ SeenOK /\ SameOK /\ PushOK
          /\ sync.pc = "pull" /\ s \in sync.pull /\ local \in [Slug -> Text \cup {None}]
      BY DEF Inv, CommandOK, Pull, Types
    <2>2. got \in Version /\ TrueOf(got, article[s], clock)
      BY <1>3, <2>1, GetIsVersion DEF Unknown, SeenOK, Running
    <2>3. got.text \in Text /\ new \in Text \cup {None}
      BY <2>2 DEF Version
    <2>4. /\ sync' = [sync EXCEPT !.pull = @ \ {s}, !.base[s] = got, !.new[s] = new]
          /\ local' = IF local[s] = None THEN local ELSE [local EXCEPT ![s] = got.text]
      BY <1>3 DEF Pull, PulledBase
    <2> HIDE DEF got, new
    <2>5. Types'
      BY <1>1, <2>1, <2>3, <2>4 DEF Inv, Types
    <2>6. sync' \in Running
      BY <2>1, <2>2, <2>3, <2>4 DEF Running
    <2>7. /\ sync'.base = [sync.base EXCEPT ![s] = got] /\ sync'.full = sync.full
          /\ sync'.listed = sync.listed /\ sync'.same = sync.same /\ sync'.push = sync.push
          /\ sync'.pull = sync.pull \ {s} /\ sync'.new = [sync.new EXCEPT ![s] = new]
          /\ sync'.pc = "pull"
      BY <2>1, <2>4 DEF Running
    <2>8. SeenOK'
      BY <1>1, <2>1, <2>2, <2>7 DEF SeenOK, Running
    <2>9. SameOK'
      <3> SUFFICES ASSUME NEW u \in sync.same
                   PROVE  /\ u \notin sync'.pull \cup sync'.push /\ sync'.new[u] = None
                          /\ Rebased(u)' \in {sync'.base[u], sync'.full[u]} \ {None}
        BY <2>7 DEF SameOK
      <3>1. u # s /\ u \in Slug
        BY <2>1 DEF SameOK, Running
      <3>2. sync'.base[u] = sync.base[u] /\ sync'.new[u] = sync.new[u] /\ local'[u] = local[u]
        BY <2>1, <2>4, <2>7, <3>1 DEF Running
      <3>3. Rebased(u)' = Rebased(u)
        BY <2>7, <3>2 DEF Rebased, Unknown
      <3> QED BY <2>1, <2>7, <3>2, <3>3 DEF SameOK
    <2>10. PushOK'
      BY <2>1, <2>3, <2>4, <2>7, NoneIsApart DEF PushOK, Running
    <2>11. CommandOK'
      BY <2>6, <2>7, <2>8, <2>9, <2>10 DEF CommandOK, PlanOK
    <2> QED BY <1>1, <2>5, <2>11, BaseRests DEF Inv
  <1> QED BY <1>2, <1>3

LEMMA PullDoneInv ==
  ASSUME Inv, PullDone
  PROVE  Inv'
  <1>1. Moves /\ UNCHANGED <<production, git, head, writes, base, backup, faults>>
    BY QuietMoves DEF PullDone, Inv, production
  <1>2. /\ sync \in Running /\ SeenOK /\ SameOK /\ PushOK /\ local \in [Slug -> Text \cup {None}]
        /\ local' = [s \in Slug |-> IF sync.new[s] = None THEN local[s] ELSE sync.new[s]]
        /\ sync' = [sync EXCEPT !.pc = IF sync.push = {} THEN "push" ELSE "backup",
                                !.new = Idle.new]
    BY DEF Inv, CommandOK, Types, PullDone
  <1>3. Types'
    BY <1>1, <1>2 DEF Inv, Types, Running, production
  <1>4. Idle.new \in [Slug -> Text \cup {None}]
    BY DEF Idle
  <1>5. sync' \in Running
    BY <1>2, <1>4 DEF Running
  <1>6. /\ sync'.base = sync.base /\ sync'.full = sync.full /\ sync'.listed = sync.listed
        /\ sync'.same = sync.same /\ sync'.push = sync.push /\ sync'.pull = sync.pull
        /\ sync'.new = Idle.new /\ sync'.pc # "plan"
    BY <1>2 DEF Running
  <1>7. SeenOK'
    BY <1>1, <1>2, <1>6 DEF SeenOK, production
  <1>8. SameOK'
    <2> SUFFICES ASSUME NEW u \in sync.same
                 PROVE  /\ u \notin sync.pull \cup sync.push /\ Idle.new[u] = None
                        /\ Rebased(u)' \in {sync.base[u], sync.full[u]} \ {None}
      BY <1>6 DEF SameOK
    <2>1. u \in Slug /\ sync.new[u] = None
      BY <1>2 DEF SameOK, Running
    <2>2. Rebased(u)' = Rebased(u)
      BY <1>2, <1>6, <2>1 DEF Rebased, Unknown
    <2>3. Idle.new[u] = None
      BY <2>1 DEF Idle
    <2> QED BY <1>2, <2>2, <2>3 DEF SameOK
  <1>9. PushOK'
    BY <1>2, <1>6 DEF PushOK, Running
  <1>10. CommandOK'
    BY <1>5, <1>6, <1>7, <1>8, <1>9 DEF CommandOK, PlanOK
  <1> QED BY <1>1, <1>3, <1>10, BaseRests DEF Inv

LEMMA BackupInv ==
  ASSUME Inv, Backup
  PROVE  Inv'
  <1> DEFINE risky == {s \in sync.push : sync.listed[s] # None}
  <1>1. Moves /\ UNCHANGED <<production, checkout, faults>> /\ base' = base
    BY QuietMoves DEF Backup, Fail, Inv, production
  <1>2. CASE local # head \/ \E s \in risky : article[s] = None
    <2>1. Fail /\ backup' = backup
      BY <1>2 DEF Backup
    <2>2. Types'
      BY <1>1, <2>1 DEF Inv, Types, production, checkout
    <2> QED BY <1>1, <2>1, <2>2, FailInv
  <1>3. CASE ~(local # head \/ \E s \in risky : article[s] = None)
    <2>1. /\ sync \in Running /\ CommandOK
          /\ backup' = [s \in Slug |-> IF s \in risky THEN backup[s] \cup {article[s].text}
                                       ELSE backup[s]]
          /\ sync' = [sync EXCEPT !.pc = "push"]
      BY <1>3 DEF Backup, Inv, CommandOK
    <2>2. \A s \in risky : s \in Slug /\ article[s].text \in Text
      BY <1>3, <2>1 DEF Inv, Types, Article, Running
    <2>3. backup' \in [Slug -> SUBSET Text]
      BY <2>1, <2>2 DEF Inv, Types
    <2>4. Types'
      BY <1>1, <2>3 DEF Inv, Types, production, checkout
    <2>5. sync' \in Running
      BY <2>1 DEF Running
    <2>6. /\ sync'.base = sync.base /\ sync'.full = sync.full /\ sync'.listed = sync.listed
          /\ sync'.same = sync.same /\ sync'.push = sync.push /\ sync'.pull = sync.pull
          /\ sync'.new = sync.new /\ sync'.pc = "push"
      BY <2>1 DEF Running
    <2>7. CommandOK'
      BY <1>1, <2>1, <2>5, <2>6 DEF CommandOK, SeenOK, SameOK, PlanOK, PushOK, Rebased, Unknown,
         production, checkout
    <2> QED BY <1>1, <2>4, <2>7, BaseRests DEF Inv
  <1> QED BY <1>2, <1>3

LEMMA PushInv ==
  ASSUME Inv, NEW s \in Slug, Push(s)
  PROVE  Inv'
  <1> DEFINE new == [text |-> local[s], at |-> clock + 1]
  <1>1. /\ sync \in Running /\ SeenOK /\ SameOK /\ PushOK
        /\ sync.pc = "push" /\ s \in sync.push /\ Save(s, local[s])
        /\ sync' = [sync EXCEPT !.push = @ \ {s}, !.base[s] = new]
        /\ UNCHANGED <<edits, checkout, base, backup, faults>>
    BY DEF Inv, CommandOK, Push
  <1>2. local[s] \in Text /\ clock \in Nat
    BY <1>1 DEF PushOK, Inv, Types
  <1>3. /\ Moves /\ revision' \in [Slug -> SUBSET [text: Text, version: Nat]]
        /\ dropped' = dropped /\ clock' = clock + 1
        /\ article'[s].text = local[s] /\ article'[s].at = clock + 1
    BY <1>1, <1>2, SaveMoves
  <1>4. new \in Version /\ TrueOf(new, article'[s], clock')
    BY <1>2, <1>3 DEF Version, TrueOf
  <1> HIDE DEF new
  <1>5. Types'
    BY <1>1, <1>3 DEF Inv, Types, Moves, checkout
  <1>6. sync' \in Running
    BY <1>1, <1>4 DEF Running
  <1>7. /\ sync'.base = [sync.base EXCEPT ![s] = new] /\ sync'.full = sync.full
        /\ sync'.listed = sync.listed /\ sync'.same = sync.same /\ sync'.push = sync.push \ {s}
        /\ sync'.pull = sync.pull /\ sync'.new = sync.new /\ sync'.pc = "push"
    BY <1>1 DEF Running
  <1>8. SeenOK'
    BY <1>1, <1>3, <1>4, <1>7, MovesKeepTruth DEF SeenOK, Running
  <1>9. SameOK'
    <2> SUFFICES ASSUME NEW u \in sync.same
                 PROVE  /\ u \notin sync'.pull \cup sync'.push /\ sync'.new[u] = None
                        /\ Rebased(u)' \in {sync'.base[u], sync'.full[u]} \ {None}
      BY <1>7 DEF SameOK
    <2>1. u # s /\ u \in Slug
      BY <1>1 DEF SameOK, Running
    <2>2. sync'.base[u] = sync.base[u] /\ Rebased(u)' = Rebased(u)
      BY <1>1, <1>7, <2>1 DEF Rebased, Unknown, checkout, Running
    <2> QED BY <1>1, <1>7, <2>2 DEF SameOK
  <1>10. PushOK'
    BY <1>1, <1>7 DEF PushOK, checkout
  <1>11. CommandOK'
    BY <1>6, <1>7, <1>8, <1>9, <1>10 DEF CommandOK, PlanOK
  <1> QED BY <1>1, <1>3, <1>5, <1>11, BaseRests DEF Inv

LEMMA SaveStateInv ==
  ASSUME Inv, SaveState
  PROVE  Inv'
  <1>1. /\ Moves /\ UNCHANGED <<production, checkout, backup, faults>> /\ sync' = Idle
        /\ base' = [s \in Slug |-> Rebased(s)]
    BY QuietMoves DEF SaveState, Inv, production
  <1>2. ASSUME NEW s \in Slug
        PROVE  Rebased(s) \in Version \cup {None} /\ TrueOf(Rebased(s), article[s], clock)
    <2>1. /\ sync.base[s] \in Version \cup {None} /\ sync.full[s] \in Version \cup {None}
          /\ TrueOf(sync.base[s], article[s], clock) /\ TrueOf(sync.full[s], article[s], clock)
      BY DEF Inv, CommandOK, Running, SeenOK
    <2>2. Rebased(s) \in {sync.base[s], sync.full[s]}
      BY DEF Inv, CommandOK, SameOK, Rebased
    <2> QED BY <2>1, <2>2
  <1>3. Types'
    BY <1>1, <1>2 DEF Inv, Types, production, checkout
  <1>4. BaseOK'
    BY <1>1, <1>2 DEF BaseOK, production
  <1> QED BY <1>1, <1>3, <1>4, MovesKeepArticles, IdleIsFine DEF Inv

LEMMA StopInv ==
  ASSUME Inv, Interrupted \/ \E s \in Slug : PushRefused(s) \/ PushUnanswered(s)
  PROVE  Inv'
  <1>1. CASE Interrupted \/ \E s \in Slug : PushRefused(s)
    <2>1. faults' \in 0..MaxFaults
      BY <1>1, BoundAssumption, Counts DEF Interrupted, PushRefused, Inv, Types
    <2>2. Types' /\ Moves /\ Fail
      BY <1>1, <2>1, QuietMoves DEF Interrupted, PushRefused, Fail, Inv, Types, production, checkout
    <2> QED BY <2>2, FailInv
  <1>2. ASSUME NEW s \in Slug, PushUnanswered(s) PROVE Inv'
    <2>1. local[s] \in Text /\ Save(s, local[s]) /\ Fail
      BY <1>2 DEF PushUnanswered, Inv, CommandOK, PushOK, Types
    <2>2. faults' \in 0..MaxFaults
      BY <1>2, BoundAssumption, Counts DEF PushUnanswered, Inv, Types
    <2>3. Types' /\ Moves
      BY <1>2, <2>1, <2>2, SaveMoves DEF PushUnanswered, Fail, Inv, Types, Moves, checkout
    <2> QED BY <2>1, <2>3, FailInv
  <1> QED BY <1>1, <1>2

LEMMA StepInv == Inv /\ [Next]_vars => Inv'
  <1> SUFFICES ASSUME Inv, [Next]_vars PROVE Inv'
    OBVIOUS
  <1>1. CASE UNCHANGED vars
    <2>1. Types' /\ Moves
      BY <1>1, QuietMoves DEF vars, production, checkout, Inv, Types
    <2> QED BY <1>1, <2>1, CommandRests, BaseRests DEF vars, checkout, Inv
  <1>2. CASE Next
    BY <1>2, AdminInv, DeveloperInv, LookInv, FetchInv, PlanInv, PullInv, PullDoneInv, BackupInv,
       PushInv, SaveStateInv, StopInv DEF Next, Command
  <1> QED BY <1>1, <1>2

-----------------------------------------------------------------------------
(* Articles, revisions, files, the state file and the command keep their types. *)
THEOREM TypeCorrect == Spec => []TypeOK
  <1>1. Inv => TypeOK
    BY TypeParts DEF Inv, CommandOK
  <1> QED BY <1>1, InitInv, StepInv, PTL DEF Spec

(* The state file is never right about the time of a text in production and   *)
(* wrong about the text, whatever is saved while a command runs and wherever  *)
(* it stops: a push need not look at what it replaces.                      *)
THEOREM BaseTellsTruth == Spec => []BaseIsTrue
  <1>1. Inv => BaseIsTrue
    BY DEF Inv, BaseOK, TrueOf, BaseIsTrue
  <1> QED BY <1>1, InitInv, StepInv, PTL DEF Spec
-----------------------------------------------------------------------------
(* What a command replaces, on either side.                                 *)

(* The texts production has, or has had. *)
Served(s) ==
    (IF article[s] = None THEN {} ELSE {article[s].text})
        \cup {r.text : r \in revision[s]} \cup dropped[s]
Had(v, s) == v # None => v.text \in Served(s)

(* What a command compares with is not newer than what it lists, what it      *)
(* lists not newer than what it fetches, and that not newer than the article. *)
OrderOK(s) ==
    /\ sync.listed[s] # None =>
        /\ sync.listed[s] <= clock
        /\ article[s] # None => sync.listed[s] <= article[s].at
        /\ sync.full[s] # None => sync.listed[s] <= sync.full[s].at
    /\ sync.full[s] # None /\ article[s] # None => sync.full[s].at <= article[s].at

(* Why an article is pushed: production has none, or the one of the base;     *)
(* and why a text is overwritten: it is the base's.                         *)
PushKnown(s) ==
    s \in sync.push =>
        \/ sync.listed[s] = None
        \/ /\ base[s] # None
           /\ base[s].at = IF sync.full[s] = None THEN sync.listed[s] ELSE sync.full[s].at
PullKnown(s) ==
    /\ s \in sync.pull /\ local[s] # None =>
          sync.base[s] # None /\ local[s] = sync.base[s].text
    /\ sync.new[s] # None => local[s] = None
PhaseOK ==
    /\ sync.pc = "plan" => sync.base = base /\ sync.pull = {} /\ sync.push = {}
    /\ sync.pc \in {"backup", "push"} => sync.pull = {}

HadOK(s) == Had(base[s], s) /\ Had(sync.base[s], s) /\ Had(sync.full[s], s)
Knows(s) == HadOK(s) /\ OrderOK(s) /\ PushKnown(s) /\ PullKnown(s)
KInv == Inv /\ PhaseOK /\ \A s \in Slug : Knows(s)

Grows == \A s \in Slug : Served(s) \subseteq Served(s)'

LEMMA InitKnows == Init => KInv
  <1> SUFFICES ASSUME Init PROVE PhaseOK /\ \A s \in Slug : Knows(s)
    BY InitInv DEF KInv
  <1>1. PhaseOK
    BY DEF Init, Idle, PhaseOK
  <1>2. ASSUME NEW s \in Slug PROVE Knows(s)
    <2>1. /\ sync.listed[s] = None /\ sync.full[s] = None /\ sync.base[s] = None
          /\ sync.new[s] = None /\ s \notin sync.push /\ s \notin sync.pull
      BY DEF Init, Idle
    <2>2. Had(base[s], s)
      <3>1. PICK old \in [Slug -> Text \cup {None}] :
              /\ article = [q \in Slug |-> IF old[q] = None THEN None
                                           ELSE [text |-> old[q], at |-> 1, version |-> 1]]
              /\ base = [q \in Slug |-> IF old[q] = None THEN None
                                        ELSE [text |-> old[q], at |-> 1]]
        BY DEF Init
      <3>2. CASE old[s] = None
        BY <3>1, <3>2 DEF Had
      <3>3. CASE old[s] # None
        <4>1. /\ article[s] = [text |-> old[s], at |-> 1, version |-> 1]
              /\ base[s] = [text |-> old[s], at |-> 1]
          BY <3>1, <3>3
        <4>2. article[s] # None
          BY <4>1, <3>3, RecordAssumption
        <4>3. article[s].text = old[s] /\ base[s].text = old[s]
          BY <4>1
        <4> QED BY <4>2, <4>3 DEF Had, Served
      <3> QED BY <3>2, <3>3
    <2> QED BY <2>1, <2>2 DEF Knows, HadOK, Had, OrderOK, PushKnown, PullKnown
  <1> QED BY <1>1, <1>2

(* Production only gains texts, and what is saved is newer than all before. *)
LEMMA QuietGrows == UNCHANGED production => Grows
  BY DEF production, Grows, Served

LEMMA SaveGrows ==
  ASSUME Inv, NEW u \in Slug, NEW text \in Text, Save(u, text)
  PROVE  Grows
  <1> SUFFICES ASSUME NEW s \in Slug, NEW x \in Served(s) PROVE x \in Served(s)'
    BY DEF Grows
  <1>1. /\ dropped' = dropped
        /\ s # u => article'[s] = article[s] /\ revision'[s] = revision[s]
        /\ revision[s] \subseteq revision'[s]
    BY DEF Save, Inv, Types
  <1>2. (s = u /\ article[s] # None) => article[s].text \in {r.text : r \in revision'[s]}
    <2> SUFFICES ASSUME s = u, article[s] # None
                 PROVE  article[s].text \in {r.text : r \in revision'[s]}
      OBVIOUS
    <2> DEFINE r0 == [text |-> article[s].text, version |-> article[s].version]
    <2>1. r0 \in revision'[s]
      BY DEF Save, Inv, Types
    <2>2. r0.text = article[s].text
      OBVIOUS
    <2> HIDE DEF r0
    <2> QED BY <2>1, <2>2
  <1>3. {r.text : r \in revision[s]} \subseteq {r.text : r \in revision'[s]}
    BY <1>1
  <1> QED BY <1>1, <1>2, <1>3 DEF Served

LEMMA DeleteGrows ==
  ASSUME Inv, NEW u \in Slug, Delete(u)
  PROVE  Grows /\ Moves
  <1>1. Moves
    BY DEF Delete, Moves, Inv, Types
  <1>2. ASSUME NEW s \in Slug
        PROVE  /\ revision'[s] = revision[s] /\ dropped[s] \subseteq dropped'[s]
               /\ s # u => article'[s] = article[s]
               /\ s = u => article[s].text \in dropped'[s]
    BY DEF Delete, Inv, Types
  <1> QED BY <1>1, <1>2 DEF Grows, Served

LEMMA StepGrows == Inv /\ [Next]_vars => Grows /\ Moves
  <1> SUFFICES ASSUME Inv, [Next]_vars PROVE Grows /\ Moves
    OBVIOUS
  <1>1. ASSUME NEW u \in Slug, NEW text \in Text, Save(u, text) PROVE Grows /\ Moves
    BY <1>1, SaveGrows, SaveMoves
  <1>2. ASSUME NEW u \in Slug, Push(u) \/ PushUnanswered(u) PROVE Grows /\ Moves
    <2>1. local[u] \in Text /\ Save(u, local[u])
      BY <1>2 DEF Push, PushUnanswered, Inv, CommandOK, PushOK, Types
    <2> QED BY <1>1, <2>1
  <1>3. ASSUME NEW u \in Slug, (\E text \in Text : Edit(u, text)) \/ Revert(u) PROVE Grows /\ Moves
    <2>1. PICK text \in Text : Save(u, text)
      BY <1>3 DEF Edit, Revert, Inv, Types
    <2> QED BY <1>1, <2>1
  <1>4. CASE UNCHANGED production
    BY <1>4, QuietGrows, QuietMoves DEF production
  <1>5. CASE \/ UNCHANGED vars \/ Commit \/ Interrupted \/ Plan \/ PullDone \/ Backup \/ SaveState
             \/ \E only \in SUBSET Slug : Look(only)
             \/ \E s \in Slug : \/ \E text \in Text : Write(s, text)
                                \/ Fetch(s) \/ Pull(s) \/ PushRefused(s)
    <2>1. UNCHANGED production
      BY <1>5 DEF vars, Commit, Interrupted, Plan, PullDone, Backup, SaveState, Look, Write, Fetch,
         Pull, PushRefused
    <2> QED BY <2>1, <1>4
  <1> QED BY <1>2, <1>3, <1>5, DeleteGrows DEF Next, Command

-----------------------------------------------------------------------------
(* What a command knows, step by step. *)

LEMMA HadStays ==
  ASSUME Grows, NEW s \in Slug, NEW v, Had(v, s)
  PROVE  v # None => v.text \in Served(s)'
  BY DEF Grows, Had

LEMMA HadAsBefore ==
  ASSUME KInv, Grows, NEW s \in Slug,
         base'[s] = base[s], sync'.base[s] = sync.base[s], sync'.full[s] = sync.full[s]
  PROVE  HadOK(s)'
  BY DEF KInv, Knows, HadOK, Had, Grows

LEMMA OrderAsBefore ==
  ASSUME KInv, Moves, NEW s \in Slug,
         sync'.listed[s] = sync.listed[s], sync'.full[s] = sync.full[s]
  PROVE  OrderOK(s)'
  <1> DEFINE l == sync.listed[s]
             f == sync.full[s]
  <1>1. l \in Nat \cup {None} /\ (f # None => f.at \in Nat /\ f.at <= clock)
    BY DEF KInv, Inv, CommandOK, Running, SeenOK, TrueOf, Version
  <1>2. clock \in Nat /\ clock' \in Nat /\ clock <= clock'
    BY DEF KInv, Inv, Types, Moves
  <1>3. article[s] # None => article[s].at \in Nat
    BY DEF KInv, Inv, Types, Article
  <1>4. article'[s] # None => article'[s].at \in Nat
    BY DEF Moves, Article
  <1>5. /\ l # None => /\ l <= clock
                       /\ article[s] # None => l <= article[s].at
                       /\ f # None => l <= f.at
        /\ f # None /\ article[s] # None => f.at <= article[s].at
    BY DEF KInv, Knows, OrderOK
  <1>6. \/ article'[s] = article[s] \/ article'[s] = None \/ clock < article'[s].at
    BY DEF Moves
  <1> HIDE DEF l, f
  <1>7. /\ l # None => /\ l <= clock'
                       /\ article'[s] # None => l <= article'[s].at
                       /\ f # None => l <= f.at
        /\ f # None /\ article'[s] # None => f.at <= article'[s].at
    BY <1>1, <1>2, <1>3, <1>4, <1>5, <1>6
  <1> QED BY <1>7 DEF OrderOK, l, f

(* Somebody else's step. *)
LEMMA OtherKnows ==
  ASSUME KInv, Grows, Moves, sync' = sync, local' = local, base' = base
  PROVE  PhaseOK' /\ \A s \in Slug : Knows(s)'
  <1>1. PhaseOK'
    BY DEF KInv, PhaseOK
  <1>2. ASSUME NEW s \in Slug PROVE Knows(s)'
    <2>1. PushKnown(s)' /\ PullKnown(s)'
      BY DEF KInv, Knows, PushKnown, PullKnown
    <2> QED BY <2>1, HadAsBefore, OrderAsBefore DEF Knows
  <1> QED BY <1>1, <1>2

(* A command that has ended knows what the state file says. *)
LEMMA IdleKnows ==
  ASSUME KInv, Grows, sync' = Idle,
         \A s \in Slug : base'[s] # None => base'[s].text \in Served(s)'
  PROVE  PhaseOK' /\ \A s \in Slug : Knows(s)'
  <1>1. PhaseOK'
    BY DEF PhaseOK, Idle
  <1>2. ASSUME NEW s \in Slug PROVE Knows(s)'
    <2>1. /\ sync'.listed[s] = None /\ sync'.full[s] = None /\ sync'.base[s] = None
          /\ sync'.new[s] = None /\ s \notin sync'.push /\ s \notin sync'.pull
      BY DEF Idle
    <2> QED BY <2>1 DEF Knows, HadOK, Had, OrderOK, PushKnown, PullKnown
  <1> QED BY <1>1, <1>2

LEMMA EndKnows ==
  ASSUME KInv, Grows, sync' = Idle, base' = base
  PROVE  PhaseOK' /\ \A s \in Slug : Knows(s)'
  <1>1. \A s \in Slug : base'[s] # None => base'[s].text \in Served(s)'
    BY DEF KInv, Knows, HadOK, Had, Grows
  <1> QED BY <1>1, IdleKnows

LEMMA SaveStateKnows ==
  ASSUME KInv, Grows, SaveState
  PROVE  PhaseOK' /\ \A s \in Slug : Knows(s)'
  <1>1. ASSUME NEW s \in Slug, base'[s] # None PROVE base'[s].text \in Served(s)'
    <2>1. base'[s] = Rebased(s)
      BY DEF SaveState
    <2>2. Rebased(s) \in {sync.base[s], sync.full[s]}
      BY DEF KInv, Inv, CommandOK, SameOK, Rebased
    <2>3. Had(Rebased(s), s)
      BY <2>2 DEF KInv, Knows, HadOK
    <2> QED BY <1>1, <2>1, <2>3 DEF Had, Grows
  <1> QED BY <1>1, IdleKnows DEF SaveState

LEMMA LookKnows ==
  ASSUME KInv, Grows, NEW only \in SUBSET Slug, Look(only)
  PROVE  PhaseOK' /\ \A s \in Slug : Knows(s)'
  <1>1. /\ sync'.pc = "plan" /\ sync'.base = base /\ sync'.push = {} /\ sync'.pull = {}
        /\ sync'.listed = [s \in Slug |-> IF article[s] = None THEN None ELSE article[s].at]
        /\ sync'.full = Idle.full /\ sync'.new = Idle.new
        /\ base' = base /\ article' = article /\ clock' = clock
    BY DEF Look, Idle, production
  <1>2. ASSUME NEW s \in Slug PROVE Knows(s)'
    <2>1. sync'.full[s] = None /\ sync'.new[s] = None
      BY <1>1 DEF Idle
    <2>2. HadOK(s)'
      BY <1>1, <2>1 DEF KInv, Knows, HadOK, Had, Grows
    <2>3. OrderOK(s)'
      <3>1. article[s] # None => article[s].at \in Nat /\ article[s].at <= clock
        BY DEF KInv, Inv, Types, Article, ArticleOK
      <3> QED BY <1>1, <2>1, <3>1 DEF OrderOK
    <2> QED BY <1>1, <2>1, <2>2, <2>3 DEF Knows, PushKnown, PullKnown
  <1> QED BY <1>1, <1>2 DEF PhaseOK

LEMMA FetchKnows ==
  ASSUME KInv, Grows, Moves, NEW u \in Slug, Fetch(u)
  PROVE  PhaseOK' /\ \A s \in Slug : Knows(s)'
  <1>1. CASE article[u] = None
    BY <1>1, EndKnows DEF Fetch, Fail
  <1>2. CASE article[u] # None
    <2>1. /\ sync.pc = "plan" /\ sync' = [sync EXCEPT !.full[u] = Get(u)]
          /\ UNCHANGED <<base, article, clock, local>>
      BY <1>2 DEF Fetch, production, checkout
    <2>2. /\ sync'.listed = sync.listed /\ sync'.base = sync.base /\ sync'.pc = sync.pc
          /\ sync'.push = sync.push /\ sync'.pull = sync.pull /\ sync'.new = sync.new
          /\ sync'.full = [sync.full EXCEPT ![u] = Get(u)]
      BY <2>1 DEF KInv, Inv, CommandOK, Running
    <2>3. PhaseOK'
      BY <2>1, <2>2 DEF KInv, PhaseOK
    <2>4. ASSUME NEW s \in Slug PROVE Knows(s)'
      <3>1. PushKnown(s)' /\ PullKnown(s)'
        BY <2>1, <2>2 DEF KInv, PhaseOK, Knows, PushKnown, PullKnown
      <3>2. CASE s # u
        <4>1. sync'.full[s] = sync.full[s]
          BY <2>2, <3>2 DEF KInv, Inv, CommandOK, Running
        <4> QED BY <2>1, <2>2, <3>1, <4>1, HadAsBefore, OrderAsBefore DEF Knows
      <3>3. CASE s = u
        <4>1. sync'.full[u] = Get(u)
          BY <2>2 DEF KInv, Inv, CommandOK, Running
        <4>2. sync'.full[u].text = article[u].text /\ sync'.full[u].at = article[u].at
          BY <4>1 DEF Get
        <4>3. article[u].text \in Served(u)'
          BY <1>2, <2>1 DEF Served, Grows
        <4>4. HadOK(u)'
          BY <2>1, <2>2, <4>2, <4>3 DEF KInv, Knows, HadOK, Had, Grows
        <4>5. article[u].at \in Nat
          BY <1>2 DEF KInv, Inv, Types, Article
        <4>6. OrderOK(u)'
          BY <1>2, <2>1, <2>2, <4>2, <4>5 DEF KInv, Knows, OrderOK
        <4> QED BY <3>1, <3>3, <4>4, <4>6 DEF Knows
      <3> QED BY <3>2, <3>3
    <2> QED BY <2>3, <2>4
  <1> QED BY <1>1, <1>2

(* decide() is what makes a push a push over the base, and a pull a pull over  *)
(* it.                                                                      *)
LEMMA DirectionIsKnown ==
  ASSUME NEW s \in Slug
  PROVE  /\ Direction(s) = "push" =>
              \/ sync.listed[s] = None
              \/ /\ sync.base[s] # None
                 /\ sync.base[s].at = IF sync.full[s] = None THEN sync.listed[s]
                                      ELSE sync.full[s].at
         /\ Direction(s) = "pull" /\ local[s] # None =>
              sync.base[s] # None /\ local[s] = sync.base[s].text
  BY DEF Direction, Diverged, ProdChanged, LocalChanged, Unknown

LEMMA PlanKnows ==
  ASSUME KInv, Grows, Moves, Plan
  PROVE  PhaseOK' /\ \A s \in Slug : Knows(s)'
  <1>1. CASE Going("conflict") # {}
    BY <1>1, EndKnows DEF Plan, Fail
  <1>2. CASE Going("conflict") = {}
    <2>1. /\ sync.pc = "plan"
          /\ sync' = [sync EXCEPT !.pc = "pull", !.push = Going("push"),
                         !.pull = Going("pull"), !.same = Going("same")]
          /\ UNCHANGED <<base, local>>
      BY <1>2 DEF Plan, checkout
    <2>2. /\ sync'.listed = sync.listed /\ sync'.base = sync.base /\ sync'.full = sync.full
          /\ sync'.pc = "pull" /\ sync'.push = Going("push") /\ sync'.pull = Going("pull")
          /\ sync'.new = sync.new
      BY <2>1 DEF KInv, Inv, CommandOK, Running
    <2>3. PhaseOK'
      BY <2>2 DEF PhaseOK
    <2>4. ASSUME NEW s \in Slug PROVE Knows(s)'
      <3>1. sync.base = base /\ sync.new[s] = None
        BY <2>1 DEF KInv, PhaseOK, Inv, CommandOK, PlanOK, Idle
      <3>2. PushKnown(s)' /\ PullKnown(s)'
        BY <2>1, <2>2, <3>1, DirectionIsKnown DEF PushKnown, PullKnown, Going
      <3> QED BY <2>1, <2>2, <3>2, HadAsBefore, OrderAsBefore DEF Knows
    <2> QED BY <2>3, <2>4
  <1> QED BY <1>1, <1>2

LEMMA PullKnows ==
  ASSUME KInv, Grows, Moves, NEW u \in Slug, Pull(u)
  PROVE  PhaseOK' /\ \A s \in Slug : Knows(s)'
  <1>1. CASE Unknown(u) /\ article[u] = None
    BY <1>1, EndKnows DEF Pull, Fail
  <1>2. CASE ~(Unknown(u) /\ article[u] = None)
    <2> DEFINE got == IF Unknown(u) THEN Get(u) ELSE sync.full[u]
               new == IF local[u] = None THEN got.text ELSE None
    <2>1. /\ sync.pc = "pull" /\ base' = base
          /\ sync' = [sync EXCEPT !.pull = @ \ {u}, !.base[u] = got, !.new[u] = new]
          /\ local' = IF local[u] = None THEN local ELSE [local EXCEPT ![u] = got.text]
      BY <1>2 DEF Pull, PulledBase
    <2>2. got.text \in Served(u)
      BY <1>2 DEF KInv, Knows, HadOK, Had, Unknown, Get, Served
    <2>3. new # None => local[u] = None
      OBVIOUS
    <2> HIDE DEF got, new
    <2>4. /\ sync'.listed = sync.listed /\ sync'.full = sync.full /\ sync'.pc = "pull"
          /\ sync'.push = sync.push /\ sync'.pull = sync.pull \ {u}
          /\ sync'.base = [sync.base EXCEPT ![u] = got]
          /\ sync'.new = [sync.new EXCEPT ![u] = new]
      BY <2>1 DEF KInv, Inv, CommandOK, Running
    <2>5. PhaseOK'
      BY <2>4 DEF PhaseOK
    <2>6. ASSUME NEW s \in Slug PROVE Knows(s)'
      <3>1. OrderOK(s)'
        BY <2>4, OrderAsBefore
      <3>2. PushKnown(s)'
        BY <2>1, <2>4 DEF KInv, Knows, PushKnown
      <3>3. CASE s # u
        <4>1. sync'.base[s] = sync.base[s] /\ sync'.new[s] = sync.new[s] /\ local'[s] = local[s]
          BY <2>1, <2>4, <3>3 DEF KInv, Inv, Types, CommandOK, Running
        <4>2. PullKnown(s)'
          BY <2>4, <4>1 DEF KInv, Knows, PullKnown
        <4> QED BY <2>1, <2>4, <3>1, <3>2, <4>1, <4>2, HadAsBefore DEF Knows
      <3>4. CASE s = u
        <4>1. sync'.base[u] = got /\ sync'.new[u] = new
          BY <2>4 DEF KInv, Inv, CommandOK, Running
        <4>2. PullKnown(u)'
          BY <2>1, <2>3, <2>4, <4>1 DEF PullKnown
        <4>3. HadOK(u)'
          BY <2>1, <2>2, <2>4, <4>1 DEF KInv, Knows, HadOK, Had, Grows
        <4> QED BY <3>1, <3>2, <3>4, <4>2, <4>3 DEF Knows
      <3> QED BY <3>3, <3>4
    <2> QED BY <2>5, <2>6
  <1> QED BY <1>1, <1>2

LEMMA PullDoneKnows ==
  ASSUME KInv, Grows, Moves, PullDone
  PROVE  PhaseOK' /\ \A s \in Slug : Knows(s)'
  <1>1. /\ sync.pull = {} /\ base' = base
        /\ sync'.listed = sync.listed /\ sync'.full = sync.full /\ sync'.base = sync.base
        /\ sync'.push = sync.push /\ sync'.pull = {} /\ sync'.new = Idle.new
        /\ sync'.pc \in {"push", "backup"}
    BY DEF PullDone, KInv, Inv, CommandOK, Running
  <1>2. ASSUME NEW s \in Slug PROVE Knows(s)'
    <2>1. PushKnown(s)' /\ PullKnown(s)'
      BY <1>1 DEF KInv, Knows, PushKnown, PullKnown, Idle
    <2> QED BY <1>1, <2>1, HadAsBefore, OrderAsBefore DEF Knows
  <1> QED BY <1>1, <1>2 DEF PhaseOK

LEMMA BackupKnows ==
  ASSUME KInv, Grows, Moves, Backup
  PROVE  PhaseOK' /\ \A s \in Slug : Knows(s)'
  <1>1. CASE sync' = Idle /\ base' = base
    BY <1>1, EndKnows
  <1>2. CASE sync.pc = "backup" /\ sync' = [sync EXCEPT !.pc = "push"] /\ base' = base
    <2>1. /\ sync'.listed = sync.listed /\ sync'.full = sync.full /\ sync'.base = sync.base
          /\ sync'.push = sync.push /\ sync'.pull = sync.pull /\ sync'.new = sync.new
          /\ sync'.pc = "push" /\ local' = local
      BY <1>2 DEF Backup, checkout, KInv, Inv, CommandOK, Running
    <2>2. ASSUME NEW s \in Slug PROVE Knows(s)'
      <3>1. PushKnown(s)' /\ PullKnown(s)'
        BY <1>2, <2>1 DEF KInv, Knows, PushKnown, PullKnown
      <3> QED BY <1>2, <2>1, <3>1, HadAsBefore, OrderAsBefore DEF Knows
    <2> QED BY <1>2, <2>1, <2>2 DEF KInv, PhaseOK
  <1> QED BY <1>1, <1>2 DEF Backup, Fail

(* What was saved is there, at the new time. *)
LEMMA SavedIsServed ==
  ASSUME Inv, NEW u \in Slug, NEW text \in Text, Save(u, text)
  PROVE  text \in Served(u)'
  <1> DEFINE new == [text |-> text, at |-> clock + 1,
                     version |-> IF article[u] = None THEN 1 ELSE article[u].version + 1]
  <1>1. article'[u] = new
    BY DEF Save, Inv, Types
  <1>2. new \in Article
    BY DEF Inv, Types, Article
  <1>3. article'[u] # None
    BY <1>1, <1>2, RecordAssumption DEF Article
  <1> QED BY <1>1, <1>3 DEF Served

LEMMA PushKnows ==
  ASSUME KInv, Grows, Moves, NEW u \in Slug, Push(u)
  PROVE  PhaseOK' /\ \A s \in Slug : Knows(s)'
  <1> DEFINE pushed == [text |-> local[u], at |-> clock + 1]
  <1>1. /\ sync.pc = "push" /\ u \in sync.push
        /\ sync' = [sync EXCEPT !.push = @ \ {u}, !.base[u] = pushed]
        /\ UNCHANGED <<local, base>> /\ Save(u, local[u])
    BY DEF Push, checkout
  <1>2. local[u] \in Served(u)'
    <2>1. local[u] \in Text
      BY <1>1 DEF KInv, Inv, CommandOK, PushOK, Types
    <2> QED BY <1>1, <2>1, SavedIsServed DEF KInv
  <1>3. pushed.text = local[u]
    OBVIOUS
  <1> HIDE DEF pushed
  <1>4. /\ sync'.listed = sync.listed /\ sync'.full = sync.full /\ sync'.pc = "push"
        /\ sync'.push = sync.push \ {u} /\ sync'.pull = {} /\ sync'.new = sync.new
        /\ sync'.base = [sync.base EXCEPT ![u] = pushed]
    BY <1>1 DEF KInv, PhaseOK, Inv, CommandOK, Running
  <1>5. ASSUME NEW s \in Slug PROVE Knows(s)'
    <2>1. PushKnown(s)' /\ PullKnown(s)'
      BY <1>1, <1>4 DEF KInv, Knows, PushKnown, PullKnown
    <2>2. CASE s # u
      <3>1. sync'.base[s] = sync.base[s]
        BY <1>4, <2>2 DEF KInv, Inv, CommandOK, Running
      <3> QED BY <1>1, <1>4, <2>1, <3>1, HadAsBefore, OrderAsBefore DEF Knows
    <2>3. CASE s = u
      <3>1. sync'.base[u] = pushed
        BY <1>4 DEF KInv, Inv, CommandOK, Running
      <3>2. HadOK(u)'
        BY <1>1, <1>2, <1>3, <1>4, <3>1 DEF KInv, Knows, HadOK, Had, Grows
      <3> QED BY <1>4, <2>1, <2>3, <3>2, OrderAsBefore DEF Knows
    <2> QED BY <2>2, <2>3
  <1> QED BY <1>4, <1>5 DEF PhaseOK

LEMMA StepKnows == KInv /\ [Next]_vars => KInv'
  <1> SUFFICES ASSUME KInv, [Next]_vars
               PROVE  PhaseOK' /\ \A s \in Slug : Knows(s)'
    BY StepInv DEF KInv
  <1>1. Grows /\ Moves
    BY StepGrows DEF KInv
  <1>2. CASE \/ UNCHANGED vars
             \/ \E s \in Slug : (\E text \in Text : Edit(s, text)) \/ Revert(s) \/ Delete(s)
    BY <1>1, <1>2, OtherKnows DEF vars, checkout, Edit, Revert, Delete
  <1>3. CASE \/ Commit \/ Interrupted
             \/ \E s \in Slug : \/ \E text \in Text : Write(s, text)
                                \/ PushUnanswered(s) \/ PushRefused(s)
    BY <1>1, <1>3, EndKnows DEF Commit, Interrupted, Write, PushUnanswered, PushRefused, Fail
  <1> QED BY <1>1, <1>2, <1>3, LookKnows, FetchKnows, PlanKnows, PullKnows, PullDoneKnows,
             BackupKnows, PushKnows, SaveStateKnows DEF Next, Command

-----------------------------------------------------------------------------
(* A push is over the base, or over something newer than the listing: the     *)
(* base and the article agree on the text when they agree on the time.       *)
Over(s) ==
    (s \in sync.push /\ article[s] # None) =>
        \/ base[s] # None /\ article[s].text = base[s].text
        \/ sync.listed[s] = None \/ article[s].at > sync.listed[s]

LEMMA PushIsOver == KInv => \A s \in Slug : Over(s)
  <1> SUFFICES ASSUME KInv, NEW s \in Slug, s \in sync.push, article[s] # None,
                      sync.listed[s] # None,
                      ~(base[s] # None /\ article[s].text = base[s].text)
               PROVE  article[s].at > sync.listed[s]
    BY DEF Over
  <1>1. /\ base[s] # None
        /\ base[s].at = IF sync.full[s] = None THEN sync.listed[s] ELSE sync.full[s].at
    BY DEF KInv, Knows, PushKnown
  <1>2. article[s].at # base[s].at
    BY <1>1 DEF KInv, Inv, BaseOK, TrueOf
  <1>3. /\ article[s].at \in Nat /\ sync.listed[s] \in Nat
        /\ sync.full[s] # None => sync.full[s].at \in Nat
    BY DEF KInv, Inv, Types, Article, CommandOK, Running, Version
  <1>4. /\ sync.listed[s] <= article[s].at
        /\ sync.full[s] # None => /\ sync.listed[s] <= sync.full[s].at
                                  /\ sync.full[s].at <= article[s].at
    BY DEF KInv, Knows, OrderOK
  <1> QED BY <1>1, <1>2, <1>3, <1>4

(* A command that works only changes a file whose text production has had. *)
LEMMA FilesAreServed ==
  ASSUME KInv, [Next]_vars, sync # Idle, NEW s \in Slug
  PROVE  /\ git' = git /\ backup[s] \subseteq backup'[s]
         /\ local'[s] = local[s] \/ local[s] \in Served(s) \cup {None}
  <1>1. CASE Backup
    <2>1. local' = local /\ git' = git
      BY <1>1 DEF Backup, checkout
    <2>2. backup[s] \subseteq backup'[s]
      BY <1>1 DEF Backup, KInv, Inv, Types
    <2> QED BY <2>1, <2>2
  <1>2. CASE PullDone
    <2>1. git' = git /\ backup' = backup
      BY <1>2 DEF PullDone
    <2>2. local'[s] = IF sync.new[s] = None THEN local[s] ELSE sync.new[s]
      BY <1>2 DEF PullDone
    <2>3. sync.new[s] # None => local[s] = None
      BY DEF KInv, Knows, PullKnown
    <2> QED BY <2>1, <2>2, <2>3
  <1>3. ASSUME NEW u \in Slug, Pull(u)
        PROVE  /\ git' = git /\ backup[s] \subseteq backup'[s]
               /\ local'[s] = local[s] \/ local[s] \in Served(s) \cup {None}
    <2>1. git' = git /\ backup' = backup
      BY <1>3 DEF Pull
    <2>2. u \in sync.pull /\ (s # u => local'[s] = local[s])
      BY <1>3 DEF Pull, KInv, Inv, Types
    <2>3. u \in sync.pull /\ local[u] # None => local[u] \in Served(u)
      BY DEF KInv, Knows, PullKnown, HadOK, Had
    <2> QED BY <2>1, <2>2, <2>3
  <1>4. CASE UNCHANGED <<local, git, backup>>
    BY <1>4
  <1>5. CASE \/ UNCHANGED vars \/ Interrupted \/ Plan \/ SaveState
             \/ \E only \in SUBSET Slug : Look(only)
             \/ \E u \in Slug : \/ \E text \in Text : Edit(u, text)
                                \/ Revert(u) \/ Delete(u) \/ Fetch(u) \/ Push(u)
                                \/ PushRefused(u) \/ PushUnanswered(u)
    <2>1. UNCHANGED <<local, git, backup>>
      BY <1>5 DEF vars, checkout, Interrupted, Plan, SaveState, Look, Edit, Revert, Delete,
         Fetch, Push, PushRefused, PushUnanswered
    <2> QED BY <2>1, <1>4
  <1>6. ~Commit /\ \A u \in Slug, text \in Text : ~Write(u, text)
    BY DEF Commit, Write
  <1> QED BY <1>1, <1>2, <1>3, <1>5, <1>6 DEF Next, Command

Keeps == sync # Idle => \A s \in Slug : Kept(s) \subseteq Kept(s)'

LEMMA StepKeeps == KInv /\ [Next]_vars => Keeps
  <1> SUFFICES ASSUME KInv, [Next]_vars, sync # Idle, NEW s \in Slug, NEW x \in Kept(s)
               PROVE  x \in Kept(s)'
    BY DEF Keeps
  <1>1. Served(s) \subseteq Served(s)'
    BY StepGrows DEF KInv, Grows
  <1>2. /\ git' = git /\ backup[s] \subseteq backup'[s]
        /\ local'[s] = local[s] \/ local[s] \in Served(s) \cup {None}
    BY FilesAreServed
  <1>3. /\ Served(s)' \subseteq Kept(s)' /\ git'[s] \cup backup'[s] \subseteq Kept(s)'
        /\ {local'[s]} \ {None} \subseteq Kept(s)'
    BY DEF Served, Kept
  <1>4. x \in ({local[s]} \ {None}) \cup Served(s) \cup git[s] \cup backup[s]
    BY DEF Served, Kept
  <1> QED BY <1>1, <1>2, <1>3, <1>4

(* The command never destroys the last copy of a text, whatever is saved or    *)
(* deleted while it runs and wherever it is killed.                         *)
THEOREM NothingGetsLost == Spec => NothingIsLost
  <1>1. KInv /\ [Next]_vars => [Keeps]_vars
    BY StepKeeps
  <1>2. [][Keeps]_vars => NothingIsLost
    BY PTL DEF Keeps, NothingIsLost
  <1> QED BY <1>1, <1>2, InitKnows, StepKnows, PTL DEF Spec

(* What a push replaces is the text of the last sync, or was saved after the  *)
(* command had listed the articles, for any number of saves and commands.    *)
Replaces ==
    \A s \in Slug :
      (sync.pc = "push" /\ s \in sync.push /\ article'[s] # article[s] /\ article[s] # None
         /\ article'[s] # None /\ sync'.push # sync.push)
        => \/ base[s] # None /\ article[s].text = base[s].text
           \/ sync.listed[s] = None \/ article[s].at > sync.listed[s]

THEOREM PushesReplaceKnown == Spec => PushesOverKnown
  <1>1. KInv /\ [Next]_vars => [Replaces]_vars
    BY PushIsOver DEF Over, Replaces
  <1>2. [][Replaces]_vars => PushesOverKnown
    BY PTL DEF Replaces, PushesOverKnown
  <1> QED BY <1>1, <1>2, InitKnows, StepKnows, PTL DEF Spec
=============================================================================
