------------------------- MODULE ContentSync_proofs -------------------------
(***************************************************************************)
(* Proofs about the wiki's and the blog's commands, for any number of        *)
(* articles, posts, texts, edits and faults.  What WikiSync_proofs shows of   *)
(* the wiki's is instantiated as the module is; the blog's invariant is shown *)
(* here; and neither part disturbs what the other one relies on.             *)
(***************************************************************************)
EXTENDS ContentSync, TLAPS

WP == INSTANCE WikiSync_proofs WITH Slug <- WikiSlug, clock <- wikiClock, sync <- wikiSync

-----------------------------------------------------------------------------
(* The blog: types, and that no command replaces a text in production that    *)
(* the draft has never had.                                                 *)

Draft == [text: Text, at: Nat \cup {None}, hash: Text \cup {None}]

(* The fingerprint in a draft's head is that of a text it has had, or there   *)
(* is none; only drafts are pushed.                                         *)
DraftOK(s) ==
    draft[s] # None => draft[s].text \in held[s] /\ draft[s].hash \in held[s] \cup {None}
PushOK == \A s \in blogSync.push : draft[s] # None

BlogInv ==
    /\ B!TypeOK
    /\ \A s \in BlogSlug : DraftOK(s)
    /\ PushOK

(* The running command. *)
BlogCommand ==
    [pc: {"idle", "plan", "push", "stamp"}, only: SUBSET BlogSlug,
     listed: [BlogSlug -> Nat \cup {None}], full: [BlogSlug -> B!Post \cup {None}],
     push: SUBSET BlogSlug, same: SUBSET BlogSlug, stamp: BOOLEAN]

LEMMA NoneIsApart == None \notin Text /\ None \notin Nat
  BY NoneAssumption

LEMMA IdleIsCommand == B!Idle \in BlogCommand
  BY DEF B!Idle, BlogCommand

LEMMA InitBlog == B!Init => BlogInv
  <1> SUFFICES ASSUME B!Init PROVE BlogInv
    OBVIOUS
  <1>1. PICK old \in [BlogSlug -> Text \cup {None}], dated \in [BlogSlug -> BOOLEAN] :
          /\ post = [s \in BlogSlug |-> IF old[s] = None THEN None ELSE [text |-> old[s], at |-> 1]]
          /\ draft = [s \in BlogSlug |-> IF old[s] = None THEN None
                                     ELSE [text |-> old[s], at |-> IF dated[s] THEN 1 ELSE None,
                                           hash |-> old[s]]]
          /\ held = [s \in BlogSlug |-> {old[s]} \ {None}]
    BY DEF B!Init
  <1>2. post \in [BlogSlug -> B!Post \cup {None}]
    BY <1>1 DEF B!Post
  <1>3. draft \in [BlogSlug -> Draft \cup {None}]
    BY <1>1 DEF Draft
  <1>4. held \in [BlogSlug -> SUBSET Text]
    BY <1>1
  <1>5. blogSync \in BlogCommand
    BY IdleIsCommand DEF B!Init
  <1>6. B!TypeOK
    BY <1>2, <1>3, <1>4, <1>5, BoundAssumption DEF B!Init, B!TypeOK, Draft, BlogCommand
  <1>7. \A s \in BlogSlug : DraftOK(s)
    BY <1>1 DEF DraftOK
  <1>8. PushOK
    BY DEF B!Init, B!Idle, PushOK
  <1> QED BY <1>6, <1>7, <1>8 DEF BlogInv

(* The types of the parts, as the steps use them. *)
BlogTypes ==
    /\ post \in [BlogSlug -> B!Post \cup {None}] /\ cache \in [BlogSlug -> B!Post \cup {None}]
    /\ draft \in [BlogSlug -> Draft \cup {None}]
    /\ held \in [BlogSlug -> SUBSET Text]
    /\ blogClock \in Nat
    /\ edits \in 0..MaxEdits /\ writes \in 0..MaxWrites /\ faults \in 0..MaxFaults

LEMMA BlogTypeParts == B!TypeOK <=> BlogTypes /\ blogSync \in BlogCommand
  BY DEF B!TypeOK, BlogTypes, Draft, BlogCommand

LEMMA Counts ==
  ASSUME NEW n, NEW m \in Nat, n \in 0..m, n < m
  PROVE  n + 1 \in 0..m
  OBVIOUS

(* A command that ends has nothing left to push. *)
LEMMA EndIsFine == B!End => blogSync' \in BlogCommand /\ PushOK'
  BY IdleIsCommand DEF B!End, B!Idle, PushOK

(* What a push does, seen from one draft: the text in production is the        *)
(* draft's, or it becomes the draft's.                                      *)
LEMMA SyncIsTyped ==
  ASSUME NEW s \in BlogSlug, BlogTypes, B!Sync(s), draft[s] # None
  PROVE  /\ post' \in [BlogSlug -> B!Post \cup {None}] /\ blogClock' \in Nat
         /\ post'[s].text = draft[s].text
  <1>1. draft[s] \in Draft
    BY DEF BlogTypes
  <1>2. CASE UNCHANGED <<post, blogClock>> /\ post[s].text = draft[s].text
    BY <1>2 DEF BlogTypes
  <1>3. CASE /\ blogClock' = blogClock + 1
             /\ post' = [post EXCEPT ![s] =
                           [text |-> draft[s].text,
                            at |-> IF draft[s].at = None THEN blogClock + 1 ELSE draft[s].at]]
    <2> DEFINE at == IF draft[s].at = None THEN blogClock + 1 ELSE draft[s].at
    <2>1. blogClock + 1 \in Nat /\ at \in Nat /\ draft[s].text \in Text
      BY <1>1 DEF BlogTypes, Draft
    <2> HIDE DEF at
    <2>2. [text |-> draft[s].text, at |-> at] \in B!Post
      BY <2>1 DEF B!Post
    <2>3. post' = [post EXCEPT ![s] = [text |-> draft[s].text, at |-> at]]
      BY <1>3 DEF at
    <2> QED BY <1>3, <2>1, <2>2, <2>3 DEF BlogTypes
  <1> QED BY <1>2, <1>3 DEF B!Sync

LEMMA StepBlog == BlogInv /\ [B!Next]_(B!vars) => BlogInv'
  <1> SUFFICES ASSUME BlogInv, [B!Next]_(B!vars) PROVE BlogInv'
    OBVIOUS
  <1>0. BlogTypes /\ blogSync \in BlogCommand /\ PushOK
    BY BlogTypeParts DEF BlogInv
  <1>n. {MaxEdits, MaxWrites, MaxFaults} \subseteq Nat
    BY BoundAssumption
  <1> DEFINE Drafts == \A s \in BlogSlug : DraftOK(s)'
  <1>p. ASSUME BlogTypes', blogSync' \in BlogCommand, Drafts, PushOK' PROVE BlogInv'
    BY <1>p DEF BlogInv, B!TypeOK, BlogTypes, Draft, BlogCommand
  <1>d. ASSUME draft' = draft, held' = held PROVE Drafts
    BY <1>d DEF BlogInv, DraftOK
  <1>q. ASSUME draft' = draft, blogSync' = blogSync PROVE blogSync' \in BlogCommand /\ PushOK'
    BY <1>q, <1>0 DEF PushOK
  <1> HIDE DEF Drafts
  (* The admin screen *)
  <1>1. ASSUME NEW s \in BlogSlug, NEW text \in Text, B!Edit(s, text) PROVE BlogInv'
    <2>1. BlogTypes' /\ draft' = draft /\ held' = held /\ blogSync' = blogSync
      <3>1. [text |-> text, at |-> blogClock + 1] \in B!Post /\ blogClock + 1 \in Nat
        BY <1>0 DEF BlogTypes, B!Post
      <3>2. edits + 1 \in 0..MaxEdits
        BY <1>0, <1>1, <1>n, Counts DEF BlogTypes, B!Edit, B!Admin
      <3> QED BY <3>1, <3>2, <1>0, <1>1 DEF BlogTypes, B!Edit, B!Admin
    <2> QED BY <2>1, <1>p, <1>d, <1>q
  <1>2. ASSUME NEW s \in BlogSlug, B!Delete(s) PROVE BlogInv'
    <2>1. BlogTypes' /\ draft' = draft /\ held' = held /\ blogSync' = blogSync
      <3>1. edits + 1 \in 0..MaxEdits
        BY <1>0, <1>2, <1>n, Counts DEF BlogTypes, B!Delete, B!Admin
      <3> QED BY <3>1, <1>0, <1>2 DEF BlogTypes, B!Delete, B!Admin
    <2> QED BY <2>1, <1>p, <1>d, <1>q
  (* The developer *)
  <1>3. ASSUME NEW s \in BlogSlug, NEW text \in Text, B!Write(s, text) PROVE BlogInv'
    <2> DEFINE new == IF draft[s] = None THEN [text |-> text, at |-> None, hash |-> None]
                      ELSE [draft[s] EXCEPT !.text = text]
    <2>1. new \in Draft /\ new.text = text
          /\ new.hash = IF draft[s] = None THEN None ELSE draft[s].hash
      BY <1>0 DEF BlogTypes, Draft
    <2>2. draft' = [draft EXCEPT ![s] = new] /\ held' = [held EXCEPT ![s] = @ \cup {text}]
      BY <1>3 DEF B!Write
    <2> HIDE DEF new
    <2>3. writes' \in 0..MaxWrites
      BY <1>0, <1>3, <1>n, Counts DEF BlogTypes, B!Write
    <2>4. BlogTypes'
      BY <2>1, <2>2, <2>3, <1>0, <1>3 DEF BlogTypes, B!Write, B!production
    <2>5. Drafts
      <3>1. ASSUME NEW u \in BlogSlug PROVE DraftOK(u)'
        BY <2>1, <2>2, <1>0 DEF BlogTypes, BlogInv, DraftOK
      <3> QED BY <3>1 DEF Drafts
    <2>6. blogSync' \in BlogCommand /\ PushOK'
      BY <1>3, IdleIsCommand DEF B!Write, B!Idle, PushOK
    <2> QED BY <2>4, <2>5, <2>6, <1>p
  <1>4. ASSUME NEW s \in BlogSlug, B!TakeOver(s) PROVE BlogInv'
    <2>1. post[s].text \in Text
      BY <1>0, <1>4 DEF B!TakeOver, BlogTypes, B!Post
    <2> QED BY <2>1, <1>3, <1>4 DEF B!TakeOver
  (* The command; most of it leaves production and the drafts alone. *)
  <1>5. ASSUME UNCHANGED <<B!production, draft, writes, held>>,
               cache' \in [BlogSlug -> B!Post \cup {None}],
               faults' \in 0..MaxFaults, blogSync' \in BlogCommand, PushOK'
        PROVE  BlogInv'
    BY <1>5, <1>0, <1>p, <1>d DEF BlogTypes, B!production
  <1>6. ASSUME NEW only \in SUBSET BlogSlug, B!Look(only) PROVE BlogInv'
    <2>1. blogSync' \in BlogCommand
      <3>1. [s \in BlogSlug |-> IF post[s] = None THEN None ELSE post[s].at]
              \in [BlogSlug -> Nat \cup {None}]
        BY <1>0 DEF BlogTypes, B!Post
      <3> QED BY <3>1, <1>6, IdleIsCommand DEF B!Look, BlogCommand
    <2>2. PushOK'
      BY <1>6 DEF B!Look, B!Idle, PushOK
    <2> QED BY <2>1, <2>2, <1>0, <1>5, <1>6 DEF B!Look, BlogTypes
  <1>7. ASSUME NEW s \in BlogSlug, B!Fetch(s) PROVE BlogInv'
    <2>1. CASE post[s] = None
      BY <2>1, <1>0, <1>5, <1>7, EndIsFine DEF B!Fetch, BlogTypes
    <2>2. CASE post[s] # None
      <3>1. blogSync' = [blogSync EXCEPT !.full[s] = post[s]] /\ draft' = draft
        BY <2>2, <1>7 DEF B!Fetch
      <3>2. blogSync' \in BlogCommand
        BY <3>1, <1>0 DEF BlogTypes, BlogCommand
      <3>3. PushOK'
        BY <3>1, <1>0 DEF PushOK, BlogCommand
      <3> QED BY <3>2, <3>3, <1>0, <1>5, <1>7 DEF B!Fetch, BlogTypes
    <2> QED BY <2>1, <2>2
  <1>8. ASSUME B!Plan PROVE BlogInv'
    <2>1. CASE B!Going("conflict") # {}
      BY <2>1, <1>0, <1>5, <1>8, EndIsFine DEF B!Plan, BlogTypes
    <2>2. CASE B!Going("conflict") = {}
      <3>1. /\ blogSync' = [blogSync EXCEPT !.pc = "push", !.push = B!Going("push"),
                                    !.same = B!Going("same"), !.stamp = B!Going("pull") # {}]
            /\ cache' = [s \in BlogSlug |->
                           IF s \in B!Going("same") \ blogSync.same
                           THEN [text |-> draft[s].text, at |-> blogSync.listed[s]] ELSE cache[s]]
            /\ draft' = draft
        BY <2>2, <1>8 DEF B!Plan
      <3>2. \A dir : B!Going(dir) \subseteq BlogSlug
        BY <1>0 DEF B!Going, BlogCommand
      <3>3. blogSync' \in BlogCommand
        BY <3>1, <3>2, <1>0 DEF BlogCommand
      <3>4. \A s \in B!Going("push") : draft[s] # None
        BY DEF B!Going, B!Direction
      <3>5. PushOK'
        BY <3>1, <3>4, <1>0 DEF PushOK, BlogCommand
      <3>6. ASSUME NEW s \in B!Going("same")
            PROVE  [text |-> draft[s].text, at |-> blogSync.listed[s]] \in B!Post
        <4>1. s \in BlogSlug /\ draft[s] # None /\ blogSync.listed[s] # None
          BY <3>2 DEF B!Going, B!Direction
        <4>2. draft[s].text \in Text /\ blogSync.listed[s] \in Nat
          BY <4>1, <1>0 DEF BlogTypes, Draft, BlogCommand
        <4> QED BY <4>2 DEF B!Post
      <3>7. cache' \in [BlogSlug -> B!Post \cup {None}]
        BY <3>1, <3>6, <1>0 DEF BlogTypes
      <3> QED BY <3>3, <3>5, <3>7, <1>0, <1>5, <1>8 DEF B!Plan, BlogTypes
    <2> QED BY <2>1, <2>2
  <1>9. ASSUME NEW s \in BlogSlug, B!Publish(s) PROVE BlogInv'
    <2>1. blogSync' = [B!Idle EXCEPT !.pc = "push", !.only = {s}, !.push = {s}]
          /\ draft' = draft /\ draft[s] # None
      BY <1>9 DEF B!Publish
    <2>2. blogSync' \in BlogCommand
      BY <2>1, IdleIsCommand DEF BlogCommand
    <2>3. PushOK'
      BY <2>1 DEF B!Idle, PushOK
    <2> QED BY <2>2, <2>3, <1>0, <1>5, <1>9 DEF B!Publish, BlogTypes
  <1>10. ASSUME NEW s \in BlogSlug, B!Push(s) PROVE BlogInv'
    <2>1. s \in blogSync.push /\ B!Sync(s) /\ draft[s] # None
      BY <1>10, <1>0 DEF B!Push, PushOK
    <2>2. draft[s] \in Draft /\ draft[s].text \in held[s] /\ draft[s].text \in Text
      BY <2>1, <1>0 DEF BlogTypes, Draft, BlogInv, DraftOK
    <2> DEFINE new == [draft[s] EXCEPT !.hash = draft[s].text]
    <2>3. draft' = [draft EXCEPT ![s] = new]
      BY <2>1, <1>0, <1>10, SyncIsTyped DEF B!Push, BlogTypes
    <2>4. new \in Draft /\ new.text = draft[s].text /\ new.hash = draft[s].text
      BY <2>2 DEF Draft
    <2>5. held' = held /\ blogSync' = [blogSync EXCEPT !.push = @ \ {s}]
      BY <1>10 DEF B!Push
    <2> HIDE DEF new
    <2>6. BlogTypes'
      BY <2>1, <2>3, <2>4, <2>5, <1>0, <1>10, SyncIsTyped DEF B!Push, BlogTypes
    <2>7. Drafts
      <3>1. ASSUME NEW u \in BlogSlug PROVE DraftOK(u)'
        BY <2>2, <2>3, <2>4, <2>5, <1>0 DEF BlogTypes, BlogInv, DraftOK
      <3> QED BY <3>1 DEF Drafts
    <2>8. blogSync' \in BlogCommand /\ PushOK'
      BY <2>3, <2>5, <1>0 DEF BlogCommand, PushOK, BlogTypes
    <2> QED BY <2>6, <2>7, <2>8, <1>p
  <1>11. ASSUME NEW s \in BlogSlug, B!PushRefused(s) PROVE BlogInv'
    BY <1>0, <1>5, <1>11, EndIsFine DEF B!PushRefused, BlogTypes
  <1>12. ASSUME NEW s \in BlogSlug, B!PushUnanswered(s) PROVE BlogInv'
    <2>1. B!Sync(s) /\ draft[s] # None
      BY <1>12, <1>0 DEF B!PushUnanswered, PushOK
    <2>2. faults' \in 0..MaxFaults
      BY <1>0, <1>12, <1>n, Counts DEF BlogTypes, B!PushUnanswered
    <2>3. BlogTypes' /\ draft' = draft /\ held' = held
      BY <2>1, <2>2, <1>0, <1>12, SyncIsTyped DEF B!PushUnanswered, BlogTypes
    <2> QED BY <2>3, <1>12, <1>p, <1>d, EndIsFine DEF B!PushUnanswered
  <1>13. ASSUME B!PushDone PROVE BlogInv'
    <2>1. blogSync' \in BlogCommand /\ PushOK'
      <3>1. CASE blogSync.stamp
        BY <3>1, <1>0, <1>13 DEF B!PushDone, BlogCommand, PushOK
      <3>2. CASE ~blogSync.stamp
        BY <3>2, <1>13, EndIsFine DEF B!PushDone
      <3> QED BY <3>1, <3>2
    <2> QED BY <2>1, <1>0, <1>5, <1>13 DEF B!PushDone, BlogTypes
  <1>14. ASSUME B!Stamp PROVE BlogInv'
    <2>1. ASSUME NEW s \in BlogSlug, draft[s] # None, post[s] # None
          PROVE  /\ [draft[s] EXCEPT !.at = post[s].at] \in Draft
                 /\ [draft[s] EXCEPT !.at = post[s].at].text = draft[s].text
                 /\ [draft[s] EXCEPT !.at = post[s].at].hash = draft[s].hash
      BY <2>1, <1>0 DEF BlogTypes, Draft, B!Post
    <2>2. draft' = [s \in BlogSlug |-> IF draft[s] = None \/ post[s] = None THEN draft[s]
                                   ELSE [draft[s] EXCEPT !.at = post[s].at]]
          /\ held' = held
      BY <1>14 DEF B!Stamp
    <2>3. draft' \in [BlogSlug -> Draft \cup {None}]
      BY <2>1, <2>2, <1>0 DEF BlogTypes
    <2>4. BlogTypes'
      BY <2>3, <1>0, <1>14 DEF B!Stamp, BlogTypes, B!production
    <2>5. Drafts
      <3>1. ASSUME NEW u \in BlogSlug PROVE DraftOK(u)'
        BY <2>1, <2>2 DEF BlogInv, DraftOK
      <3> QED BY <3>1 DEF Drafts
    <2> QED BY <2>4, <2>5, <1>14, <1>p, EndIsFine DEF B!Stamp
  <1>15. ASSUME B!Interrupted PROVE BlogInv'
    <2>1. faults' \in 0..MaxFaults
      BY <1>0, <1>15, <1>n, Counts DEF BlogTypes, B!Interrupted
    <2> QED BY <2>1, <1>0, <1>5, <1>15, EndIsFine DEF B!Interrupted, BlogTypes
  <1>16. ASSUME UNCHANGED B!vars PROVE BlogInv'
    BY <1>0, <1>5, <1>16, <1>q DEF B!vars, BlogTypes
  <1> QED
    BY <1>1, <1>2, <1>3, <1>4, <1>6, <1>7, <1>8, <1>9, <1>10, <1>11, <1>12, <1>13, <1>14,
       <1>15, <1>16 DEF B!Next

-----------------------------------------------------------------------------
(* What a push replaces, the draft has had: the server compares the            *)
(* fingerprint in the draft's head under the row's lock, and the head only    *)
(* ever gets fingerprints of the draft's own texts.                         *)
Seen ==
    \A s \in BlogSlug :
      (blogSync.pc = "push" /\ s \in blogSync.push /\ post'[s] # post[s] /\ edits' = edits
         /\ post[s] # None)
        => post[s].text \in held[s]

LEMMA StepSeen == BlogInv /\ [B!Next]_(B!vars) => Seen
  <1> SUFFICES ASSUME BlogInv, [B!Next]_(B!vars), NEW s \in BlogSlug, s \in blogSync.push,
                      post'[s] # post[s], edits' = edits, post[s] # None
               PROVE  post[s].text \in held[s]
    BY DEF Seen
  <1>0. BlogTypes
    BY BlogTypeParts DEF BlogInv
  <1>1. edits + 1 # edits
    BY <1>0 DEF BlogTypes
  <1>2. PICK u \in BlogSlug : B!Push(u) \/ B!PushUnanswered(u)
    <2>1. post' # post
      OBVIOUS
    <2> QED BY <1>1, <2>1
          DEF B!Next, B!vars, B!production, B!Edit, B!Delete, B!Admin, B!Write, B!TakeOver,
              B!Publish, B!Fetch, B!PushRefused, B!Look, B!Plan, B!PushDone, B!Stamp,
              B!Interrupted
  <1>3. B!Sync(u)
    BY <1>2 DEF B!Push, B!PushUnanswered
  <1>4. s = u /\ post[s].text # draft[s].text /\ B!Accepts(s)
    BY <1>0, <1>3 DEF B!Sync, B!Refuses, BlogTypes
  <1>5. post[s].text \in Text
    BY <1>0 DEF BlogTypes, B!Post
  <1>6. draft[s].hash \in held[s] \cup {None}
    BY DEF BlogInv, PushOK, DraftOK
  <1> QED BY <1>4, <1>5, <1>6, NoneIsApart DEF B!Accepts

-----------------------------------------------------------------------------
(* The pair. *)
Inv == WP!Inv /\ BlogInv

(* The counters that the two share. *)
Counted ==
    /\ edits \in 0..MaxEdits /\ writes \in 0..MaxWrites /\ faults \in 0..MaxFaults

(* The two instances of WikiSync are the same. *)
LEMMA WikiInit == W!Init => WP!Init
  BY DEF W!Init, WP!Init, W!Idle, WP!Idle

LEMMA WikiNext == W!Next => WP!Next
  BY DEF W!Next, WP!Next, W!Command, WP!Command, W!Admin, WP!Admin, W!Edit, WP!Edit,
     W!Revert, WP!Revert, W!Delete, WP!Delete, W!Save, WP!Save, W!CanSave, WP!CanSave,
     W!Write, WP!Write, W!Commit, WP!Commit, W!Look, WP!Look, W!Idle, WP!Idle,
     W!Unknown, WP!Unknown, W!LocalChanged, WP!LocalChanged, W!ProdChanged, WP!ProdChanged,
     W!Diverged, WP!Diverged, W!Direction, WP!Direction, W!Going, WP!Going, W!Get, WP!Get,
     W!Fetch, WP!Fetch, W!Plan, WP!Plan, W!PulledBase, WP!PulledBase, W!Pull, WP!Pull,
     W!PullDone, WP!PullDone, W!Backup, WP!Backup, W!Push, WP!Push, W!Fail, WP!Fail,
     W!PushRefused, WP!PushRefused, W!PushUnanswered, WP!PushUnanswered,
     W!Rebased, WP!Rebased, W!SaveState, WP!SaveState, W!Interrupted, WP!Interrupted,
     W!production, WP!production, W!checkout, WP!checkout

(* A part that rests keeps its invariant. *)
LEMMA WikiRests == ASSUME WP!Inv, UNCHANGED wiki, Counted' PROVE WP!Inv'
  BY DEF wiki, Counted, WP!Inv, WP!Types, WP!BaseOK, WP!ArticleOK, WP!CommandOK, WP!SeenOK,
     WP!SameOK, WP!PlanOK, WP!PushOK, WP!Rebased, WP!Unknown

LEMMA BlogRests == ASSUME BlogInv, UNCHANGED blog, Counted' PROVE BlogInv'
  BY DEF blog, Counted, BlogInv, B!TypeOK, DraftOK, PushOK

LEMMA WikiCounts == WP!Inv => Counted
  BY DEF WP!Inv, WP!Types, Counted

LEMMA BlogCounts == BlogInv => Counted
  BY DEF BlogInv, B!TypeOK, Counted

LEMMA InitInv == Init => Inv
  BY WikiInit, WP!InitInv, InitBlog, NoneAssumption, RecordAssumption, BoundAssumption
     DEF Init, Inv

LEMMA StepInv == Inv /\ [Next]_vars => Inv'
  <1> SUFFICES ASSUME Inv, [Next]_vars PROVE Inv'
    OBVIOUS
  <1>1. CASE WikiStep
    <2>1. WP!Inv'
      BY <1>1, WikiNext, WP!StepInv, NoneAssumption, RecordAssumption, BoundAssumption
         DEF WikiStep, Inv
    <2>2. Counted'
      BY <2>1 DEF WP!Inv, WP!Types, Counted
    <2> QED BY <1>1, <2>1, <2>2, BlogRests DEF WikiStep, Inv
  <1>2. CASE BlogStep
    <2>1. BlogInv'
      BY <1>2, StepBlog DEF BlogStep, Inv
    <2>2. Counted'
      BY <2>1 DEF BlogInv, B!TypeOK, Counted
    <2> QED BY <1>2, <2>1, <2>2, WikiRests DEF BlogStep, Inv
  <1>3. CASE UNCHANGED vars
    <2>1. Counted'
      BY <1>3, WikiCounts DEF Inv, vars, Counted
    <2> QED BY <1>3, <2>1, WikiRests, BlogRests DEF Inv, vars
  <1> QED BY <1>1, <1>2, <1>3 DEF Next

-----------------------------------------------------------------------------
(* Articles, posts, files, the state file, the cache and both commands keep   *)
(* their types.                                                             *)
THEOREM TypeCorrect == Spec => []TypeOK
  <1>1. BlogInv => B!TypeOK
    BY DEF BlogInv
  <1>2. WP!Inv => W!TypeOK
    BY DEF WP!Inv, WP!Types, WP!CommandOK, WP!Article, WP!Running, WP!Version,
       W!TypeOK, W!Version
  <1> QED BY <1>1, <1>2, InitInv, StepInv, PTL DEF Spec, Inv, TypeOK

(* The wiki's state file is never right about the time of a text in production *)
(* and wrong about the text, whatever is saved while a command runs and       *)
(* wherever it stops.                                                       *)
THEOREM BaseTellsTruth == Spec => []BaseIsTrue
  <1>1. Inv => BaseIsTrue
    BY DEF Inv, BaseIsTrue, W!BaseIsTrue, WP!Inv, WP!BaseOK, WP!TrueOf
  <1> QED BY <1>1, InitInv, StepInv, PTL DEF Spec

(* A push to the blog replaces only texts that the draft has had, whatever an *)
(* administrator edits while the command runs and whichever answers are lost. *)
THEOREM OnlySeenIsReplaced == Spec => ReplacesOnlySeen
  <1>1. Inv /\ [Next]_vars => [Seen]_(B!vars)
    <2> SUFFICES ASSUME Inv, [Next]_vars, post' # post PROVE Seen
      BY DEF Seen
    <2>1. BlogStep
      BY DEF Next, WikiStep, vars, blog
    <2> QED BY <2>1, StepSeen DEF BlogStep, Inv
  <1>2. [][Seen]_(B!vars) => ReplacesOnlySeen
    BY PTL DEF Seen, ReplacesOnlySeen, B!ReplacesOnlySeen
  <1> QED BY <1>1, <1>2, InitInv, StepInv, PTL DEF Spec
-----------------------------------------------------------------------------
(* What the wiki's command replaces. *)
KInv == WP!KInv /\ BlogInv

LEMMA WikiIsKnown ==
  ASSUME WP!KInv, UNCHANGED wiki, WP!Inv'
  PROVE  WP!KInv'
  <1>1. WP!PhaseOK'
    BY DEF wiki, WP!KInv, WP!PhaseOK
  <1>2. ASSUME NEW s \in WikiSlug PROVE WP!Knows(s)'
    BY DEF wiki, WP!KInv, WP!Knows, WP!HadOK, WP!Had, WP!Served, WP!OrderOK, WP!PushKnown,
       WP!PullKnown
  <1> QED BY <1>1, <1>2 DEF WP!KInv

LEMMA InitKnows == Init => KInv
  BY WikiInit, WP!InitKnows, InitInv, NoneAssumption, RecordAssumption, BoundAssumption
     DEF Init, Inv, KInv

LEMMA StepKnows == KInv /\ [Next]_vars => KInv'
  <1> SUFFICES ASSUME KInv, [Next]_vars PROVE KInv'
    OBVIOUS
  <1>1. Inv /\ Inv'
    BY StepInv DEF KInv, Inv, WP!KInv
  <1>2. CASE WikiStep
    <2>1. WP!KInv'
      BY <1>2, WikiNext, WP!StepKnows, NoneAssumption, RecordAssumption, BoundAssumption
         DEF WikiStep, KInv
    <2> QED BY <1>1, <2>1 DEF Inv, KInv
  <1>3. CASE BlogStep \/ UNCHANGED vars
    <2>1. UNCHANGED wiki
      BY <1>3 DEF BlogStep, vars, wiki
    <2> QED BY <1>1, <2>1, WikiIsKnown DEF Inv, KInv
  <1> QED BY <1>2, <1>3 DEF Next

(* wiki-sync.mjs never destroys the last copy of a text, whatever is saved or  *)
(* deleted while it runs and wherever it is killed.                         *)
THEOREM NothingGetsLost == Spec => NothingIsLost
  <1> DEFINE Keeps == wikiSync # W!Idle => \A s \in WikiSlug : W!Kept(s) \subseteq W!Kept(s)'
  <1>1. KInv /\ [Next]_vars => [Keeps]_(W!vars)
    <2> SUFFICES ASSUME KInv, [Next]_vars PROVE [Keeps]_(W!vars)
      OBVIOUS
    <2>1. CASE WikiStep
      <3>1. WP!Keeps
        BY <2>1, WikiNext, WP!StepKeeps, NoneAssumption, RecordAssumption, BoundAssumption
           DEF WikiStep, KInv
      <3> QED BY <3>1 DEF WP!Keeps, WP!Idle, W!Idle, WP!Kept, W!Kept
    <2>2. CASE BlogStep \/ UNCHANGED vars
      <3>1. UNCHANGED wiki
        BY <2>2 DEF BlogStep, vars, wiki
      <3> QED BY <3>1 DEF wiki, W!Kept
    <2> QED BY <2>1, <2>2 DEF Next
  <1>2. [][Keeps]_(W!vars) => NothingIsLost
    BY PTL DEF NothingIsLost, W!NothingIsLost
  <1> QED BY <1>1, <1>2, InitKnows, StepKnows, PTL DEF Spec

(* What a push to the wiki replaces is the text of the last sync, or was saved *)
(* after the command had listed the articles.                               *)
THEOREM PushesReplaceKnown == Spec => PushesOverKnown
  <1> DEFINE Replaces ==
        \A s \in WikiSlug :
          (wikiSync.pc = "push" /\ s \in wikiSync.push /\ article'[s] # article[s]
             /\ article[s] # None /\ article'[s] # None /\ wikiSync'.push # wikiSync.push)
            => \/ base[s] # None /\ article[s].text = base[s].text
               \/ wikiSync.listed[s] = None \/ article[s].at > wikiSync.listed[s]
  <1>1. KInv /\ [Next]_vars => [Replaces]_(W!vars)
    <2>1. KInv => \A s \in WikiSlug : WP!Over(s)
      BY WP!PushIsOver, NoneAssumption, RecordAssumption, BoundAssumption DEF KInv
    <2> QED BY <2>1 DEF WP!Over
  <1>2. [][Replaces]_(W!vars) => PushesOverKnown
    BY PTL DEF PushesOverKnown, W!PushesOverKnown
  <1> QED BY <1>1, <1>2, InitKnows, StepKnows, PTL DEF Spec
=============================================================================
