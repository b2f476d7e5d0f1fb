------------------------- MODULE ObjectStorage_proofs -------------------------
(***************************************************************************)
(* What the objects and the rows of a job promise each other, for any      *)
(* number of completions, publications, kinds of artifacts, raised calls   *)
(* and deaths.                                                             *)
(*                                                                         *)
(* The argument: an id names the call that made it, so that a call only    *)
(* ever adds and removes what is its own; its pc says which of its keys    *)
(* are stored and whether its rows are committed; and once the job is due  *)
(* no call is under way, so that a scan of the purge misses nothing.       *)
(***************************************************************************)
EXTENDS ObjectStorage, TLAPS

Active(c) == calls[c].pc \notin {"idle", "ended"}

Drafts(p, S) == {Draft(p, k) : k \in S}

Whole(p) == {Manifest(p)} \cup Drafts(p, Kinds)

\* What a completion holds: nothing, or its asset from the copy to the end.
CompleterKeys(c) ==
  /\ calls[c].pc # "put"
  /\ calls[c].temps = {}
  /\ calls[c].finals \subseteq {Media(c)}
  /\ calls[c].pc \in {"idle", "check", "copy"} => calls[c].finals = {}
  /\ calls[c].pc \in {"commit", "tidy", "mark"} => calls[c].finals = {Media(c)}

\* What a publication holds: the drafts put so far, each with its copy but
\* for the latest, and before its commit the whole set.
PublisherKeys(p) ==
  /\ calls[p].pc \notin {"check", "mark"}
  /\ calls[p].temps \subseteq Drafts(p, Kinds)
  /\ calls[p].finals \subseteq Whole(p)
  /\ calls[p].pc = "idle" => calls[p] = NewCall
  /\ calls[p].pc = "put" =>
       /\ calls[p].temps = Drafts(p, Kinds \ calls[p].todo)
       /\ calls[p].finals = calls[p].temps
  /\ calls[p].pc = "copy" =>
       /\ calls[p].temps = Drafts(p, Kinds \ calls[p].todo)
       /\ calls[p].finals \subseteq calls[p].temps
       /\ \A a, b \in calls[p].temps \ calls[p].finals : a = b
  /\ calls[p].pc \in {"commit", "tidy"} => calls[p].finals = Whole(p)

KeysAreOwn ==
  /\ \A c \in Completers : CompleterKeys(c)
  /\ \A p \in Publishers : PublisherKeys(p)

\* A call that is still before its commit, or undoes what it never committed.
Uncommitted(c) ==
  \/ calls[c].pc \in {"idle", "check", "copy", "put", "commit"}
  \/ calls[c].pc = "undo" /\ ~late

Recorded(c) ==
  /\ Uncommitted(c) => \A r \in rows : r.by # c
  /\ calls[c].pc \in {"tidy", "mark"} => calls[c].finals \subseteq rows

Stored(c) ==
  calls[c].pc \in {"copy", "put", "commit", "tidy", "mark"} =>
    calls[c].finals \subseteq formal

CallsAreTrue == \A c \in Calls : Recorded(c) /\ Stored(c)

\* The completion that marked the session has ended and undoes nothing.
SessionIsTrue ==
  session = "COMPLETED" /\ job = "live" =>
    \E c \in Completers : calls[c].pc = "ended" /\ Media(c) \in rows \cap formal

\* An object no row names is held by a call that is still to remove it.
Accounted ==
  ~litter =>
    /\ \A id \in formal \ rows :
         id.by \in Calls /\ Active(id.by) /\ id \in calls[id.by].finals
    /\ \A id \in temporary \ {Upload} :
         id.by \in Calls /\ Active(id.by) /\ id \in calls[id.by].temps

\* Nothing but the purge moves once the job is due.
DueIsQuiet ==
  /\ job \in {"due", "purged"} =>
       (session # "none" => expired) /\ \A c \in Calls : ~Active(c)
  /\ purge.pc # "idle" => job = "due"

\* The purge misses nothing.
PurgeIsThorough ==
  /\ purge.pc = "idle" => purge.listed = {}
  /\ purge.pc = "temporary" => temporary \subseteq purge.listed
  /\ purge.pc = "formal" => temporary = {} /\ formal \subseteq purge.listed

StorageInv ==
  /\ TypeOK /\ KeysAreOwn /\ CallsAreTrue /\ SessionIsTrue /\ Accounted
  /\ DueIsQuiet /\ PurgeIsThorough
  /\ RowHasObject /\ WholeSet /\ PurgedIsEmpty

-----------------------------------------------------------------------------

\* The ids of two calls, and of two kinds, are different.
LEMMA IdsDiffer ==
  /\ Upload \in Ids /\ Upload.by \notin Calls
  /\ \A c \in Calls : Media(c) \in Ids /\ Manifest(c) \in Ids
                      /\ Media(c).by = c /\ Manifest(c).by = c
                      /\ \A k \in Kinds : Draft(c, k) \in Ids /\ Draft(c, k).by = c
                                          /\ Draft(c, k).kind = k
                                          /\ k \notin {"media", "manifest", "upload"}
BY CallsAssumption, KindsAssumption
DEF Upload, Ids, Media, Manifest, Draft, Calls

LEMMA StorageStart == Init => StorageInv
<1> SUFFICES ASSUME Init PROVE StorageInv
  OBVIOUS
<1> USE CallsAssumption, KindsAssumption DEF Init, NewCall
<1>1. TypeOK
  BY DEF TypeOK, CallState
<1>2. KeysAreOwn
  BY DEF KeysAreOwn, CompleterKeys, PublisherKeys, Calls, Drafts, Whole
<1>3. CallsAreTrue /\ SessionIsTrue /\ Accounted
  BY DEF CallsAreTrue, Recorded, Uncommitted, Stored, SessionIsTrue, Accounted
<1>4. DueIsQuiet /\ PurgeIsThorough
  BY DEF DueIsQuiet, PurgeIsThorough
<1>5. RowHasObject /\ WholeSet /\ PurgedIsEmpty
  BY DEF RowHasObject, WholeSet, PurgedIsEmpty
<1>6. QED
  BY <1>1, <1>2, <1>3, <1>4, <1>5 DEF StorageInv

-----------------------------------------------------------------------------
(* Steps of one call                                                       *)

\* Call c goes on with these keys, and no other call moves.
MovesTo(c, pc, todo, temps, finals) ==
  /\ calls' \in [Calls -> CallState]
  /\ calls'[c].pc = pc /\ calls'[c].todo = todo
  /\ calls'[c].temps = temps /\ calls'[c].finals = finals
  /\ \A d \in Calls \ {c} : calls'[d] = calls[d]

Places == {"idle", "check", "copy", "put", "commit", "tidy", "mark", "undo", "ended"}

LEMMA FieldsOfCall ==
  ASSUME TypeOK, NEW c \in Calls
  PROVE  /\ calls[c] \in CallState /\ calls \in [Calls -> CallState]
         /\ calls[c].pc \in Places /\ calls[c].todo \in SUBSET Kinds
         /\ calls[c].temps \in SUBSET Ids /\ calls[c].finals \in SUBSET Ids
<1>1. calls[c] \in CallState /\ calls \in [Calls -> CallState]
  BY DEF TypeOK
<1>2. QED
  BY <1>1 DEF CallState, Places

LEMMA Moves ==
  ASSUME TypeOK, NEW c \in Calls, NEW s \in CallState,
         calls' = [calls EXCEPT ![c] = s]
  PROVE  MovesTo(c, s.pc, s.todo, s.temps, s.finals)
<1>1. calls \in [Calls -> CallState]
  BY DEF TypeOK
<1>2. QED
  BY <1>1 DEF MovesTo

LEMMA GotoMoves ==
  ASSUME TypeOK, NEW c \in Calls, NEW pc \in Places, Goto(c, pc)
  PROVE  MovesTo(c, pc, calls[c].todo, calls[c].temps, calls[c].finals)
<1>0. calls[c] \in CallState
  BY FieldsOfCall
<1> DEFINE s == [calls[c] EXCEPT !.pc = pc]
<1>1. /\ s \in CallState
      /\ s.pc = pc /\ s.todo = calls[c].todo /\ s.temps = calls[c].temps
      /\ s.finals = calls[c].finals
  BY <1>0 DEF CallState, Places
<1>2. calls' = [calls EXCEPT ![c] = s]
  BY DEF Goto
<1> HIDE DEF s
<1>3. QED
  BY <1>1, <1>2, Moves

LEMMA MovesWithFinals ==
  ASSUME TypeOK, NEW c \in Calls, NEW pc \in Places, NEW finals \in SUBSET Ids,
         calls' = [calls EXCEPT ![c].pc = pc, ![c].finals = finals]
  PROVE  MovesTo(c, pc, calls[c].todo, calls[c].temps, finals)
<1>0. calls[c] \in CallState /\ calls \in [Calls -> CallState]
  BY FieldsOfCall
<1> DEFINE s == [calls[c] EXCEPT !.pc = pc, !.finals = finals]
<1>1. /\ s \in CallState
      /\ s.pc = pc /\ s.todo = calls[c].todo /\ s.temps = calls[c].temps
      /\ s.finals = finals
  BY <1>0 DEF CallState, Places
<1>2. calls' = [calls EXCEPT ![c] = s]
  BY <1>0
<1> HIDE DEF s
<1>3. QED
  BY <1>1, <1>2, Moves

LEMMA MovesWithTemps ==
  ASSUME TypeOK, NEW c \in Calls, NEW pc \in Places, NEW todo \in SUBSET Kinds,
         NEW temps \in SUBSET Ids,
         calls' = [calls EXCEPT ![c].pc = pc, ![c].temps = temps, ![c].todo = todo]
  PROVE  MovesTo(c, pc, todo, temps, calls[c].finals)
<1>0. calls[c] \in CallState /\ calls \in [Calls -> CallState]
  BY FieldsOfCall
<1> DEFINE s == [calls[c] EXCEPT !.pc = pc, !.temps = temps, !.todo = todo]
<1>1. /\ s \in CallState
      /\ s.pc = pc /\ s.todo = todo /\ s.temps = temps
      /\ s.finals = calls[c].finals
  BY <1>0 DEF CallState, Places
<1>2. calls' = [calls EXCEPT ![c] = s]
  BY <1>0
<1> HIDE DEF s
<1>3. QED
  BY <1>1, <1>2, Moves

LEMMA MovesRemoving ==
  ASSUME TypeOK, NEW c \in Calls, NEW left \in SUBSET Ids
  PROVE  /\ calls' = [calls EXCEPT ![c].temps = left]
              => MovesTo(c, calls[c].pc, calls[c].todo, left, calls[c].finals)
         /\ calls' = [calls EXCEPT ![c].finals = left]
              => MovesTo(c, calls[c].pc, calls[c].todo, calls[c].temps, left)
<1>0. calls[c] \in CallState /\ calls \in [Calls -> CallState]
  BY FieldsOfCall
<1>1. ASSUME calls' = [calls EXCEPT ![c].temps = left]
      PROVE  MovesTo(c, calls[c].pc, calls[c].todo, left, calls[c].finals)
  <2> DEFINE s == [calls[c] EXCEPT !.temps = left]
  <2>1. /\ s \in CallState
        /\ s.pc = calls[c].pc /\ s.todo = calls[c].todo /\ s.temps = left
        /\ s.finals = calls[c].finals
    BY <1>0 DEF CallState
  <2>2. calls' = [calls EXCEPT ![c] = s]
    BY <1>1
  <2> HIDE DEF s
  <2>3. QED
    BY <2>1, <2>2, Moves
<1>2. ASSUME calls' = [calls EXCEPT ![c].finals = left]
      PROVE  MovesTo(c, calls[c].pc, calls[c].todo, calls[c].temps, left)
  <2> DEFINE s == [calls[c] EXCEPT !.finals = left]
  <2>1. /\ s \in CallState
        /\ s.pc = calls[c].pc /\ s.todo = calls[c].todo /\ s.finals = left
        /\ s.temps = calls[c].temps
    BY <1>0 DEF CallState
  <2>2. calls' = [calls EXCEPT ![c] = s]
    BY <1>2
  <2> HIDE DEF s
  <2>3. QED
    BY <2>1, <2>2, Moves
<1>3. QED
  BY <1>1, <1>2

\* While a call is under way the job is not due and the purge idle.
LEMMA ActiveBeforeDue ==
  ASSUME StorageInv, NEW c \in Calls, Active(c)
  PROVE  job \in {"live", "deleted"}
BY DEF StorageInv, TypeOK, DueIsQuiet

\* Before the job is due a step of a call concerns the purge in nothing.
LEMMA PurgeWaits ==
  ASSUME StorageInv, job \in {"live", "deleted"}, UNCHANGED <<job, purge>>
  PROVE  DueIsQuiet' /\ PurgeIsThorough' /\ PurgedIsEmpty'
BY DEF StorageInv, TypeOK, DueIsQuiet, PurgeIsThorough, PurgedIsEmpty

\* Assets are not artifacts.
LEMMA AssetsKeepSets ==
  ASSUME WholeSet, NEW c \in Calls, rows' \in {rows, rows \cup {Media(c)}}
  PROVE  WholeSet'
BY DEF WholeSet, Media

\* The keys of the other calls are what they were.
LEMMA KeysMove ==
  ASSUME KeysAreOwn, NEW c \in Calls, NEW pc, NEW todo, NEW temps, NEW finals,
         MovesTo(c, pc, todo, temps, finals),
         c \in Completers => CompleterKeys(c)', c \in Publishers => PublisherKeys(c)'
  PROVE  KeysAreOwn'
<1>1. ASSUME NEW d \in Completers
      PROVE  CompleterKeys(d)'
  <2>1. CASE d = c
    BY <2>1
  <2>2. CASE d # c
    BY <2>2, CompleterKeys(d) DEF KeysAreOwn, CompleterKeys, MovesTo, Calls
  <2>3. QED
    BY <2>1, <2>2
<1>2. ASSUME NEW d \in Publishers
      PROVE  PublisherKeys(d)'
  <2>1. CASE d = c
    BY <2>1
  <2>2. CASE d # c
    BY <2>2, PublisherKeys(d) DEF KeysAreOwn, PublisherKeys, MovesTo, Calls
  <2>3. QED
    BY <2>1, <2>2
<1>3. QED
  BY <1>1, <1>2 DEF KeysAreOwn

\* Every key a call holds is its own.
LEMMA OwnKeys ==
  ASSUME KeysAreOwn, NEW c \in Calls, NEW id \in calls[c].temps \cup calls[c].finals
  PROVE  id.by = c
BY IdsDiffer
DEF KeysAreOwn, Calls, CompleterKeys, PublisherKeys, Drafts, Whole

\* The environment and the purge move no call.
LEMMA OthersStep ==
  ASSUME StorageInv, Issue \/ ClientPut \/ Expire \/ Delete \/ Due
  PROVE  StorageInv'
<1>0. UNCHANGED <<formal, rows, calls, purge, late, litter, raises, crashes>>
  BY DEF Issue, ClientPut, Expire, Delete, Due, Fine
<1>1. TypeOK'
  <2>1. TypeOK
    BY DEF StorageInv
  <2>2. CASE ClientPut
    <3>1. temporary' \subseteq Ids /\ UNCHANGED <<job, session, expired>>
      BY <2>1, <2>2, IdsDiffer DEF TypeOK, ClientPut
    <3>2. QED
      BY <1>0, <2>1, <3>1 DEF TypeOK
  <2>3. CASE Issue
    BY <1>0, <2>1, <2>3 DEF TypeOK, Issue
  <2>4. CASE Expire
    BY <1>0, <2>1, <2>4 DEF TypeOK, Expire
  <2>5. CASE Delete
    BY <1>0, <2>1, <2>5 DEF TypeOK, Delete
  <2>6. CASE Due
    BY <1>0, <2>1, <2>6 DEF TypeOK, Due
  <2>7. QED
    BY <2>2, <2>3, <2>4, <2>5, <2>6
<1>2. KeysAreOwn' /\ CallsAreTrue'
  BY <1>0 DEF StorageInv, KeysAreOwn, CompleterKeys, PublisherKeys, CallsAreTrue,
              Recorded, Uncommitted, Stored
<1>3. SessionIsTrue'
  BY <1>0 DEF StorageInv, SessionIsTrue, Issue, ClientPut, Expire, Delete, Due
<1>4. Accounted'
  <2>1. temporary' \in {temporary, temporary \cup {Upload}}
    BY DEF Issue, ClientPut, Expire, Delete, Due
  <2>2. QED
    BY <1>0, <2>1 DEF StorageInv, Accounted, Active
<1>5. DueIsQuiet' /\ PurgeIsThorough'
  BY <1>0 DEF StorageInv, DueIsQuiet, PurgeIsThorough, Active,
              Issue, ClientPut, Expire, Delete, Due
<1>6. RowHasObject' /\ WholeSet' /\ PurgedIsEmpty'
  BY <1>0 DEF StorageInv, TypeOK, RowHasObject, WholeSet, PurgedIsEmpty, DueIsQuiet,
              Issue, ClientPut, Expire, Delete, Due
<1>7. QED
  BY <1>1, <1>2, <1>3, <1>4, <1>5, <1>6 DEF StorageInv

LEMMA PurgeStep ==
  ASSUME StorageInv,
         PurgeScan \/ PurgeObject \/ PurgeFormal \/ PurgeRows \/ PurgeStops
  PROVE  StorageInv'
<1>0. /\ UNCHANGED <<session, expired, calls, late, litter>>
      /\ job = "due" /\ job' \in {"due", "purged"}
      /\ formal' \subseteq formal /\ temporary' \subseteq temporary
      /\ rows' \in {rows, {}}
  BY DEF StorageInv, TypeOK, DueIsQuiet, PurgeIsThorough, PurgeScan, PurgeObject,
         PurgeFormal, PurgeRows, PurgeStops, PurgeGoto, Fine
<1>1. TypeOK'
  BY <1>0, BoundsAssumption
  DEF StorageInv, TypeOK, PurgeScan, PurgeObject, PurgeFormal, PurgeRows, PurgeStops,
      PurgeGoto, Fine, Raise
<1>2. KeysAreOwn'
  BY <1>0 DEF StorageInv, KeysAreOwn, CompleterKeys, PublisherKeys
<1>3. CallsAreTrue'
  <2> SUFFICES ASSUME NEW c \in Calls
               PROVE  Recorded(c)' /\ Stored(c)'
    BY DEF CallsAreTrue
  <2>1. ~Active(c) /\ Recorded(c)
    BY <1>0 DEF StorageInv, DueIsQuiet, CallsAreTrue
  <2>2. QED
    BY <1>0, <2>1 DEF Recorded, Uncommitted, Stored, Active
<1>4. SessionIsTrue' /\ RowHasObject'
  BY <1>0 DEF SessionIsTrue, RowHasObject
<1>5. PurgedIsEmpty' /\ PurgeIsThorough'
  BY <1>0 DEF StorageInv, TypeOK, DueIsQuiet, PurgeIsThorough, PurgedIsEmpty,
              PurgeScan, PurgeObject, PurgeFormal, PurgeRows, PurgeStops, PurgeGoto
<1>6. Accounted'
  <2>1. rows' = rows \/ formal' = {}
    BY <1>0 DEF StorageInv, PurgeIsThorough, PurgeScan, PurgeObject, PurgeFormal,
                PurgeRows, PurgeStops
  <2>2. QED
    BY <1>0, <2>1 DEF StorageInv, Accounted, Active
<1>7. DueIsQuiet'
  BY <1>0 DEF StorageInv, DueIsQuiet, Active, PurgeScan, PurgeObject, PurgeFormal,
              PurgeRows, PurgeStops, PurgeGoto
<1>8. WholeSet'
  BY <1>0 DEF StorageInv, WholeSet
<1>9. QED
  BY <1>1, <1>2, <1>3, <1>4, <1>5, <1>6, <1>7, <1>8 DEF StorageInv

-----------------------------------------------------------------------------
(* What a step of a call leaves alone                                      *)

\* The step of call c makes, removes and records only what is its own.
Own(c) ==
  /\ \A id \in (formal' \ formal) \cup (formal \ formal') : id.by = c
  /\ \A id \in temporary' \ temporary : id.by = c
  /\ rows \subseteq rows' /\ \A r \in rows' \ rows : r.by = c
  /\ late => late'
  /\ litter => litter'

\* Of what is its own, it has recorded only what is stored, and what no row
\* names it still holds.
Settled(c) ==
  /\ job = "live" /\ ~late => \A r \in rows : r.by = c => r \in formal
  /\ ~litter =>
       /\ \A id \in formal \ rows : id.by = c => Active(c) /\ id \in calls[c].finals
       /\ \A id \in temporary : id.by = c => Active(c) /\ id \in calls[c].temps

LEMMA CallStep ==
  ASSUME StorageInv, NEW c \in Calls, calls[c].pc # "ended",
         job \in {"live", "deleted"}, UNCHANGED <<job, purge>>,
         NEW pc, NEW todo, NEW temps, NEW finals,
         MovesTo(c, pc, todo, temps, finals),
         TypeOK', WholeSet', Own(c), Settled(c)',
         c \in Completers => CompleterKeys(c)', c \in Publishers => PublisherKeys(c)',
         Recorded(c)', Stored(c)',
         \/ session' = session
         \/ c \in Completers /\ pc = "ended" /\ Media(c) \in rows' \cap formal'
  PROVE  StorageInv'
<1>1. /\ calls'[c].pc = pc
      /\ \A d \in Calls \ {c} : calls'[d] = calls[d]
  BY DEF MovesTo
<1>2. KeysAreOwn'
  BY KeysMove DEF StorageInv
<1>3. CallsAreTrue'
  <2> SUFFICES ASSUME NEW d \in Calls
               PROVE  Recorded(d)' /\ Stored(d)'
    BY DEF CallsAreTrue
  <2>1. Recorded(d) /\ Stored(d)
    BY DEF StorageInv, CallsAreTrue
  <2>2. CASE d # c
    <3>1. \A id \in calls[d].finals : id.by # c
      BY <2>2, OwnKeys DEF StorageInv
    <3>2. Recorded(d)'
      BY <1>1, <2>1, <2>2 DEF Own, Recorded, Uncommitted
    <3>3. Stored(d)'
      BY <1>1, <2>1, <2>2, <3>1 DEF Own, Stored
    <3>4. QED
      BY <3>2, <3>3
  <2>3. QED
    BY <2>2
<1>4. SessionIsTrue'
  <2>1. CASE session' = session
    <3> SUFFICES ASSUME session = "COMPLETED", job = "live"
                 PROVE  SessionIsTrue'
      BY <2>1 DEF SessionIsTrue
    <3>1. PICK d \in Completers : calls[d].pc = "ended" /\ Media(d) \in rows \cap formal
      BY DEF StorageInv, SessionIsTrue
    <3>2. d \in Calls /\ d # c /\ Media(d).by # c
      BY <3>1, IdsDiffer DEF Calls
    <3>3. calls'[d].pc = "ended" /\ Media(d) \in rows' \cap formal'
      BY <1>1, <3>1, <3>2 DEF Own
    <3>4. QED
      BY <3>3 DEF SessionIsTrue
  <2>2. CASE c \in Completers /\ pc = "ended" /\ Media(c) \in rows' \cap formal'
    BY <1>1, <2>2 DEF SessionIsTrue
  <2>3. QED
    BY <2>1, <2>2
<1>5. Accounted'
  <2> SUFFICES ASSUME ~litter' PROVE Accounted'
    BY DEF Accounted
  <2>1. Accounted /\ ~litter
    BY DEF StorageInv, Own
  <2>2. \A id \in formal' \ rows' : id.by # c => id \in formal \ rows
    BY DEF Own
  <2>3. \A id \in temporary' \ {Upload} : id.by # c => id \in temporary \ {Upload}
    BY DEF Own
  <2>4. \A id : id.by \in Calls \ {c} /\ Active(id.by) => Active(id.by)'
    BY <1>1 DEF Active
  <2>5. \A id \in formal' \ rows' :
          id.by \in Calls /\ Active(id.by)' /\ id \in calls'[id.by].finals
    BY <1>1, <2>1, <2>2, <2>4 DEF Accounted, Settled
  <2>6. \A id \in temporary' \ {Upload} :
          id.by \in Calls /\ Active(id.by)' /\ id \in calls'[id.by].temps
    BY <1>1, <2>1, <2>3, <2>4 DEF Accounted, Settled
  <2>7. QED
    BY <2>5, <2>6 DEF Accounted, Active, Upload
<1>6. RowHasObject'
  BY DEF StorageInv, RowHasObject, Own, Settled
<1>7. QED
  BY <1>2, <1>3, <1>4, <1>5, <1>6, PurgeWaits DEF StorageInv

\* What is known of call c before its step.
LEMMA BeforeStep ==
  ASSUME StorageInv, NEW c \in Calls
  PROVE  /\ TypeOK /\ Recorded(c) /\ Stored(c) /\ Settled(c)
         /\ c \in Completers => c \notin Publishers /\ CompleterKeys(c)
         /\ c \in Publishers => c \notin Completers /\ PublisherKeys(c)
         /\ WholeSet
<1>1. \A id : id.by = c => id # Upload
  BY IdsDiffer
<1>2. job = "live" /\ ~late => \A r \in rows : r.by = c => r \in formal
  BY DEF StorageInv, RowHasObject
<1>3. Settled(c)
  BY <1>1, <1>2 DEF StorageInv, Settled, Accounted
<1>4. QED
  BY <1>3, CallsAssumption DEF StorageInv, CallsAreTrue, KeysAreOwn

-----------------------------------------------------------------------------
(* Completions                                                             *)

LEMMA QuietCompletion ==
  ASSUME StorageInv, NEW c \in Completers,
         FindSession(c) \/ Verify(c) \/ MarkCompleted(c)
  PROVE  StorageInv'
<1>0. /\ c \in Calls /\ job \in {"live", "deleted"} /\ calls[c].pc # "ended"
      /\ UNCHANGED <<job, expired, temporary, formal, rows, purge, raises, crashes,
                     late, litter>>
  BY ActiveBeforeDue DEF Calls, Active, At, FindSession, Verify, MarkCompleted, Fine
<1>1. PICK pc \in Places :
        /\ MovesTo(c, pc, calls[c].todo, calls[c].temps, calls[c].finals)
        /\ \/ calls[c].pc = "idle" /\ pc = "check" /\ session' = session
           \/ calls[c].pc = "check" /\ pc \in {"copy", "ended"} /\ session' = session
           \/ calls[c].pc = "mark" /\ pc = "ended" /\ session' = "COMPLETED"
  BY <1>0, GotoMoves
  DEF StorageInv, FindSession, Verify, MarkCompleted, At, Places
<1>2. /\ calls' \in [Calls -> CallState]
      /\ calls'[c].pc = pc /\ calls'[c].temps = calls[c].temps
      /\ calls'[c].finals = calls[c].finals
  BY <1>1 DEF MovesTo
<1>3. /\ TypeOK /\ Recorded(c) /\ Stored(c) /\ Settled(c) /\ WholeSet
      /\ c \notin Publishers /\ CompleterKeys(c)
  BY <1>0, BeforeStep
<1>4. TypeOK' /\ WholeSet' /\ Own(c)
  BY <1>0, <1>1, <1>2, <1>3 DEF TypeOK, WholeSet, Own
<1>5. CompleterKeys(c)'
  BY <1>1, <1>2, <1>3 DEF CompleterKeys
<1>6. Recorded(c)' /\ Stored(c)'
  BY <1>0, <1>1, <1>2, <1>3 DEF Recorded, Uncommitted, Stored, CompleterKeys
<1>7. Settled(c)'
  BY <1>0, <1>1, <1>2, <1>3 DEF Settled, Active, Recorded, CompleterKeys
<1>8. calls[c].pc = "mark" => Media(c) \in rows' \cap formal'
  BY <1>0, <1>3 DEF CompleterKeys, Recorded, Stored
<1>9. QED
  BY <1>0, <1>1, <1>3, <1>4, <1>5, <1>6, <1>7, <1>8, CallStep

LEMMA CopyMediaStep ==
  ASSUME StorageInv, NEW c \in Completers, CopyMedia(c)
  PROVE  StorageInv'
<1>0. /\ c \in Calls /\ job \in {"live", "deleted"} /\ calls[c].pc = "copy"
      /\ UNCHANGED <<job, session, expired, temporary, rows, purge, late>>
  BY ActiveBeforeDue DEF Calls, Active, At, CopyMedia, Fine, PutRaises, Raise
<1>1. Media(c) \in Ids /\ Media(c).by = c
  BY <1>0, IdsDiffer
<1>2. /\ TypeOK /\ Recorded(c) /\ Stored(c) /\ Settled(c) /\ WholeSet
      /\ c \notin Publishers /\ CompleterKeys(c)
      /\ calls[c].temps = {} /\ calls[c].finals = {}
  BY <1>0, BeforeStep DEF CompleterKeys
<1>3. PICK pc, finals :
        /\ MovesTo(c, pc, calls[c].todo, {}, finals)
        /\ \/ /\ pc = "commit" /\ finals = {Media(c)}
              /\ formal' = formal \cup {Media(c)} /\ litter' = litter
           \/ /\ pc = "ended" /\ finals = {}
              /\ formal' \in {formal, formal \cup {Media(c)}}
              /\ litter' \in BOOLEAN /\ (litter => litter')
              /\ ~litter' => formal' = formal
  <2>1. Goto(c, "ended") => MovesTo(c, "ended", calls[c].todo, {}, {})
    BY <1>0, <1>2, GotoMoves DEF Places
  <2>2. calls' = [calls EXCEPT ![c].pc = "commit", ![c].finals = {Media(c)}]
          => MovesTo(c, "commit", calls[c].todo, {}, {Media(c)})
    BY <1>0, <1>1, <1>2, MovesWithFinals DEF Places
  <2>3. CASE /\ formal' = formal \cup {Media(c)} /\ Fine
             /\ calls' = [calls EXCEPT ![c].pc = "commit", ![c].finals = {Media(c)}]
    BY <2>2, <2>3 DEF Fine
  <2>4. CASE UNCHANGED formal /\ Goto(c, "ended") /\ Fine
    BY <1>2, <2>1, <2>4 DEF Fine, TypeOK
  <2>5. CASE PutRaises(formal, formal', Media(c)) /\ Goto(c, "ended")
    <3>1. formal' \in {formal, formal \cup {Media(c)}}
      BY <2>5 DEF PutRaises
    <3>2. /\ litter' \in BOOLEAN /\ (litter => litter')
          /\ ~litter' => formal' = formal
      BY <1>2, <2>5, <3>1 DEF PutRaises, TypeOK
    <3>3. QED
      BY <2>1, <2>5, <3>1, <3>2
  <2>6. \/ /\ formal' = formal \cup {Media(c)} /\ Fine
           /\ calls' = [calls EXCEPT ![c].pc = "commit", ![c].finals = {Media(c)}]
        \/ UNCHANGED formal /\ Goto(c, "ended") /\ Fine
        \/ PutRaises(formal, formal', Media(c)) /\ Goto(c, "ended")
    BY DEF CopyMedia
  <2>7. QED
    BY <2>3, <2>4, <2>5, <2>6
<1>4. /\ calls' \in [Calls -> CallState]
      /\ calls'[c].pc = pc /\ calls'[c].temps = {} /\ calls'[c].finals = finals
  BY <1>3 DEF MovesTo
<1>5. raises' \in Nat /\ crashes' \in Nat
  BY <1>2, BoundsAssumption DEF TypeOK, CopyMedia, Fine, PutRaises, Raise
<1>6. TypeOK'
  BY <1>0, <1>1, <1>2, <1>3, <1>4, <1>5 DEF TypeOK
<1>7. WholeSet' /\ Own(c)
  BY <1>0, <1>1, <1>2, <1>3 DEF WholeSet, Own
<1>8. CompleterKeys(c)' /\ Recorded(c)' /\ Stored(c)'
  BY <1>0, <1>2, <1>3, <1>4 DEF CompleterKeys, Recorded, Uncommitted, Stored
<1>9. Settled(c)'
  BY <1>0, <1>2, <1>3, <1>4 DEF Settled, Active, CompleterKeys
<1>10. QED
  BY <1>0, <1>2, <1>3, <1>6, <1>7, <1>8, <1>9, CallStep

LEMMA InsertAssetStep ==
  ASSUME StorageInv, NEW c \in Completers, InsertAsset(c)
  PROVE  StorageInv'
<1>0. /\ c \in Calls /\ job \in {"live", "deleted"} /\ calls[c].pc = "commit"
      /\ UNCHANGED <<job, session, expired, temporary, formal, purge, litter>>
  BY ActiveBeforeDue DEF Calls, Active, At, InsertAsset, Fine, CommitRaises, Raise
<1>1. Media(c) \in Ids /\ Media(c).by = c
  BY <1>0, IdsDiffer
<1>2. /\ TypeOK /\ Recorded(c) /\ Stored(c) /\ Settled(c) /\ WholeSet
      /\ c \notin Publishers /\ CompleterKeys(c)
      /\ calls[c].temps = {} /\ calls[c].finals = {Media(c)}
  BY <1>0, BeforeStep DEF CompleterKeys
<1>3. PICK pc :
        /\ MovesTo(c, pc, calls[c].todo, {}, {Media(c)})
        /\ \/ pc = "tidy" /\ rows' = rows \cup {Media(c)} /\ late' = late
           \/ /\ pc = "undo" /\ rows' \in {rows, rows \cup {Media(c)}}
              /\ late' \in BOOLEAN /\ (late => late')
              /\ ~late' => rows' = rows
  <2>1. CASE rows' = rows \cup {Media(c)} /\ Goto(c, "tidy") /\ Fine
    BY <1>0, <1>2, <2>1, GotoMoves DEF Places, Fine
  <2>2. CASE CommitRaises(c, {Media(c)})
    <3>1. /\ rows' \in {rows, rows \cup {Media(c)}}
          /\ late' \in BOOLEAN /\ (late => late')
          /\ ~late' => rows' = rows
      BY <1>2, <2>2 DEF CommitRaises, TypeOK
    <3>2. MovesTo(c, "undo", calls[c].todo, {}, {Media(c)})
      BY <1>0, <1>2, <2>2, GotoMoves DEF Places, CommitRaises
    <3>3. QED
      BY <3>1, <3>2
  <2>3. QED
    BY <2>1, <2>2 DEF InsertAsset
<1>4. /\ calls' \in [Calls -> CallState]
      /\ calls'[c].pc = pc /\ calls'[c].temps = {} /\ calls'[c].finals = {Media(c)}
  BY <1>3 DEF MovesTo
<1>5. raises' \in Nat /\ crashes' \in Nat
  BY <1>2, BoundsAssumption DEF TypeOK, InsertAsset, Fine, CommitRaises, Raise
<1>6. TypeOK'
  BY <1>0, <1>1, <1>2, <1>3, <1>4, <1>5 DEF TypeOK
<1>7. WholeSet' /\ Own(c)
  BY <1>0, <1>1, <1>2, <1>3, AssetsKeepSets DEF Own
<1>8. CompleterKeys(c)' /\ Recorded(c)' /\ Stored(c)'
  BY <1>0, <1>2, <1>3, <1>4 DEF CompleterKeys, Recorded, Uncommitted, Stored
<1>9. Settled(c)'
  BY <1>0, <1>2, <1>3, <1>4 DEF Settled, Active, Recorded, Uncommitted, Stored
<1>10. QED
  BY <1>0, <1>2, <1>3, <1>6, <1>7, <1>8, <1>9, CallStep

LEMMA RemoveUploadStep ==
  ASSUME StorageInv, NEW c \in Completers, RemoveUpload(c)
  PROVE  StorageInv'
<1>0. /\ c \in Calls /\ job \in {"live", "deleted"} /\ calls[c].pc = "tidy"
      /\ UNCHANGED <<job, session, expired, formal, rows, purge>>
      /\ temporary' \subseteq temporary
  BY ActiveBeforeDue DEF Calls, Active, At, RemoveUpload, RemoveRaises
<1>1. /\ TypeOK /\ Recorded(c) /\ Stored(c) /\ Settled(c) /\ WholeSet
      /\ c \notin Publishers /\ CompleterKeys(c)
      /\ calls[c].temps = {} /\ calls[c].finals = {Media(c)}
  BY <1>0, BeforeStep DEF CompleterKeys
<1>2. PICK pc :
        /\ MovesTo(c, pc, calls[c].todo, {}, {Media(c)})
        /\ \/ pc = "mark" /\ late' = late /\ litter' = litter
           \/ /\ pc = "undo" /\ late' = TRUE
              /\ litter' \in BOOLEAN /\ (litter => litter')
  BY <1>0, <1>1, GotoMoves DEF Places, RemoveUpload, RemoveRaises, Fine, TypeOK
<1>3. /\ calls' \in [Calls -> CallState]
      /\ calls'[c].pc = pc /\ calls'[c].temps = {} /\ calls'[c].finals = {Media(c)}
  BY <1>2 DEF MovesTo
<1>4. raises' \in Nat /\ crashes' \in Nat
  BY <1>1, BoundsAssumption DEF TypeOK, RemoveUpload, Fine, RemoveRaises, Raise
<1>5. TypeOK'
  BY <1>0, <1>1, <1>2, <1>3, <1>4 DEF TypeOK
<1>6. WholeSet' /\ Own(c)
  BY <1>0, <1>1, <1>2 DEF Own, WholeSet
<1>7. CompleterKeys(c)' /\ Recorded(c)' /\ Stored(c)'
  BY <1>0, <1>1, <1>2, <1>3 DEF CompleterKeys, Recorded, Uncommitted, Stored
<1>8. Settled(c)'
  BY <1>0, <1>1, <1>2, <1>3 DEF Settled, Active
<1>9. QED
  BY <1>0, <1>1, <1>2, <1>5, <1>6, <1>7, <1>8, CallStep

-----------------------------------------------------------------------------
(* Publications                                                            *)

\* A step of a publication that makes, removes and records nothing.
LEMMA QuietPublication ==
  ASSUME StorageInv, NEW p \in Publishers, Publish(p) \/ RejectMime(p)
  PROVE  StorageInv'
<1>0. /\ p \in Calls /\ job \in {"live", "deleted"} /\ calls[p].pc # "ended"
      /\ UNCHANGED <<job, session, expired, temporary, formal, rows, purge, raises,
                     crashes, late, litter>>
  BY ActiveBeforeDue DEF Calls, Active, At, Publish, RejectMime, Fine
<1>1. /\ TypeOK /\ Recorded(p) /\ Stored(p) /\ Settled(p) /\ WholeSet
      /\ p \notin Completers /\ PublisherKeys(p)
  BY <1>0, BeforeStep
<1>2. PICK pc :
        /\ MovesTo(p, pc, calls[p].todo, calls[p].temps, calls[p].finals)
        /\ \/ calls[p].pc = "idle" /\ pc = "put"
           \/ calls[p].pc = "put" /\ pc = "undo"
  BY <1>0, <1>1, GotoMoves DEF Publish, RejectMime, At, Places
<1>3. /\ calls' \in [Calls -> CallState]
      /\ calls'[p].pc = pc /\ calls'[p].temps = calls[p].temps
      /\ calls'[p].todo = calls[p].todo /\ calls'[p].finals = calls[p].finals
  BY <1>2 DEF MovesTo
<1>4. TypeOK' /\ WholeSet' /\ Own(p)
  BY <1>0, <1>1, <1>3 DEF TypeOK, WholeSet, Own
<1>5. calls[p].pc = "idle" =>
        calls[p].todo = Kinds /\ calls[p].temps = {} /\ calls[p].finals = {}
  BY <1>1 DEF PublisherKeys, NewCall
<1>6. PublisherKeys(p)'
  BY <1>1, <1>2, <1>3, <1>5 DEF PublisherKeys, Drafts
<1>7. Recorded(p)' /\ Stored(p)'
  BY <1>0, <1>1, <1>2, <1>3, <1>5 DEF Recorded, Uncommitted, Stored
<1>8. Settled(p)'
  BY <1>0, <1>1, <1>2, <1>3 DEF Settled, Active
<1>9. QED
  BY <1>0, <1>1, <1>2, <1>4, <1>6, <1>7, <1>8, CallStep

LEMMA PutDraftStep ==
  ASSUME StorageInv, NEW p \in Publishers, NEW k \in Kinds, PutDraft(p, k)
  PROVE  StorageInv'
<1>0. /\ p \in Calls /\ job \in {"live", "deleted"} /\ calls[p].pc = "put"
      /\ k \in calls[p].todo
      /\ UNCHANGED <<job, session, expired, formal, rows, purge, late>>
  BY ActiveBeforeDue DEF Calls, Active, At, PutDraft, PutRaises, Raise, Fine
<1>1. Draft(p, k) \in Ids /\ Draft(p, k).by = p
  BY <1>0, IdsDiffer
<1>2. /\ TypeOK /\ Recorded(p) /\ Stored(p) /\ Settled(p) /\ WholeSet
      /\ p \notin Completers /\ PublisherKeys(p)
      /\ calls[p].temps = Drafts(p, Kinds \ calls[p].todo)
      /\ calls[p].finals = calls[p].temps
      /\ calls[p].todo \in SUBSET Kinds /\ calls[p].temps \in SUBSET Ids
  BY <1>0, BeforeStep, FieldsOfCall DEF PublisherKeys
<1>3. PICK pc, todo, temps :
        /\ MovesTo(p, pc, todo, temps, calls[p].finals)
        /\ \/ /\ pc = "copy" /\ temps = calls[p].temps \cup {Draft(p, k)}
              /\ todo = calls[p].todo \ {k}
              /\ temporary' = temporary \cup {Draft(p, k)} /\ litter' = litter
           \/ /\ pc = "undo" /\ temps = calls[p].temps /\ todo = calls[p].todo
              /\ temporary' \in {temporary, temporary \cup {Draft(p, k)}}
              /\ litter' \in BOOLEAN /\ (litter => litter')
              /\ ~litter' => temporary' = temporary
  <2>1. CASE /\ temporary' = temporary \cup {Draft(p, k)} /\ Fine
             /\ calls' = [calls EXCEPT ![p].pc = "copy",
                                       ![p].temps = @ \cup {Draft(p, k)},
                                       ![p].todo = @ \ {k}]
    <3>0. calls \in [Calls -> CallState] /\ calls[p] \in CallState
      BY <1>0, <1>2, FieldsOfCall
    <3>1. calls' = [calls EXCEPT ![p].pc = "copy",
                                 ![p].temps = calls[p].temps \cup {Draft(p, k)},
                                 ![p].todo = calls[p].todo \ {k}]
      BY <1>0, <2>1, <3>0 DEF CallState
    <3>2. MovesTo(p, "copy", calls[p].todo \ {k}, calls[p].temps \cup {Draft(p, k)},
                  calls[p].finals)
      BY <1>0, <1>1, <1>2, <3>1, MovesWithTemps DEF Places
    <3>3. QED
      BY <2>1, <3>2 DEF Fine
  <2>2. CASE PutRaises(temporary, temporary', Draft(p, k)) /\ Goto(p, "undo")
    <3>1. temporary' \in {temporary, temporary \cup {Draft(p, k)}}
      BY <2>2 DEF PutRaises
    <3>2. /\ litter' \in BOOLEAN /\ (litter => litter')
          /\ ~litter' => temporary' = temporary
      BY <1>2, <2>2, <3>1 DEF PutRaises, TypeOK
    <3>3. MovesTo(p, "undo", calls[p].todo, calls[p].temps, calls[p].finals)
      BY <1>0, <1>2, <2>2, GotoMoves DEF Places
    <3>4. QED
      BY <3>1, <3>2, <3>3
  <2>3. QED
    BY <2>1, <2>2 DEF PutDraft
<1>4. /\ calls' \in [Calls -> CallState]
      /\ calls'[p].pc = pc /\ calls'[p].temps = temps
      /\ calls'[p].todo = todo /\ calls'[p].finals = calls[p].finals
  BY <1>3 DEF MovesTo
<1>5. raises' \in Nat /\ crashes' \in Nat
  BY <1>2, BoundsAssumption DEF TypeOK, PutDraft, Fine, PutRaises, Raise
<1>6. TypeOK'
  BY <1>0, <1>1, <1>2, <1>3, <1>4, <1>5 DEF TypeOK
<1>7. WholeSet' /\ Own(p)
  BY <1>0, <1>1, <1>2, <1>3 DEF WholeSet, Own
<1>8. PublisherKeys(p)'
  <2>1. CASE pc = "copy"
    <3>1. Kinds \ todo = (Kinds \ calls[p].todo) \cup {k}
      BY <1>2, <1>3, <2>1
    <3>2. temps = Drafts(p, Kinds \ todo)
      BY <1>2, <1>3, <2>1, <3>1 DEF Drafts
    <3>3. temps \subseteq Drafts(p, Kinds) /\ calls[p].finals \subseteq Whole(p)
      BY <1>2, <3>2 DEF PublisherKeys, Drafts
    <3>4. calls[p].finals \subseteq temps /\ temps \ calls[p].finals \subseteq {Draft(p, k)}
      BY <1>2, <1>3, <2>1
    <3>5. QED
      BY <1>4, <2>1, <3>2, <3>3, <3>4 DEF PublisherKeys
  <2>2. CASE pc = "undo"
    BY <1>2, <1>3, <1>4, <2>2 DEF PublisherKeys
  <2>3. QED
    BY <1>3, <2>1, <2>2
<1>9. Recorded(p)' /\ Stored(p)'
  BY <1>0, <1>2, <1>3, <1>4 DEF Recorded, Uncommitted, Stored
<1>10. Settled(p)'
  <2>1. CASE pc = "copy"
    <3>1. /\ temps = calls[p].temps \cup {Draft(p, k)}
          /\ temporary' = temporary \cup {Draft(p, k)} /\ litter' = litter
          /\ Active(p)'
      BY <1>3, <1>4, <2>1 DEF Active
    <3>2. ~litter =>
            /\ \A id \in formal \ rows : id.by = p => id \in calls[p].finals
            /\ \A id \in temporary : id.by = p => id \in calls[p].temps
      BY <1>2 DEF Settled
    <3>3. ~litter => \A id \in temporary' : id.by = p => id \in temps
      BY <3>1, <3>2
    <3>4. QED
      BY <1>0, <1>2, <1>4, <3>1, <3>2, <3>3 DEF Settled
  <2>2. CASE pc = "undo"
    BY <1>0, <1>2, <1>3, <1>4, <2>2 DEF Settled, Active
  <2>3. QED
    BY <1>3, <2>1, <2>2
<1>11. QED
  BY <1>0, <1>2, <1>3, <1>6, <1>7, <1>8, <1>9, <1>10, CallStep

LEMMA CopyDraftStep ==
  ASSUME StorageInv, NEW p \in Publishers, CopyDraft(p)
  PROVE  StorageInv'
<1>0. /\ p \in Calls /\ job \in {"live", "deleted"} /\ calls[p].pc = "copy"
      /\ UNCHANGED <<job, session, expired, temporary, rows, purge, late>>
  BY ActiveBeforeDue DEF Calls, Active, At, CopyDraft, PutRaises, Raise, Fine
<1>2. /\ TypeOK /\ Recorded(p) /\ Stored(p) /\ Settled(p) /\ WholeSet
      /\ p \notin Completers /\ PublisherKeys(p)
      /\ calls[p].temps = Drafts(p, Kinds \ calls[p].todo)
      /\ calls[p].temps \in SUBSET Ids /\ calls[p].finals \in SUBSET Ids
  BY <1>0, BeforeStep, FieldsOfCall DEF PublisherKeys
<1>1. PICK id \in calls[p].temps \ calls[p].finals :
        \/ /\ formal' = formal \cup {id}
           /\ calls' = [calls EXCEPT ![p].pc = "put", ![p].finals = @ \cup {id}]
           /\ Fine
        \/ PutRaises(formal, formal', id) /\ Goto(p, "undo")
  BY DEF CopyDraft
<1>3. id \in Ids /\ id.by = p
  BY <1>0, <1>1, <1>2, OwnKeys DEF StorageInv
<1>4. PICK pc, finals :
        /\ MovesTo(p, pc, calls[p].todo, calls[p].temps, finals)
        /\ \/ /\ pc = "put" /\ finals = calls[p].finals \cup {id}
              /\ formal' = formal \cup {id} /\ litter' = litter
           \/ /\ pc = "undo" /\ finals = calls[p].finals
              /\ formal' \in {formal, formal \cup {id}}
              /\ litter' \in BOOLEAN /\ (litter => litter')
              /\ ~litter' => formal' = formal
  <2>1. CASE /\ formal' = formal \cup {id} /\ Fine
             /\ calls' = [calls EXCEPT ![p].pc = "put", ![p].finals = @ \cup {id}]
    <3>0. calls \in [Calls -> CallState] /\ calls[p] \in CallState
      BY <1>0, <1>2, FieldsOfCall
    <3>1. calls' = [calls EXCEPT ![p].pc = "put",
                                 ![p].finals = calls[p].finals \cup {id}]
      BY <1>0, <2>1, <3>0 DEF CallState
    <3>2. MovesTo(p, "put", calls[p].todo, calls[p].temps, calls[p].finals \cup {id})
      BY <1>0, <1>2, <1>3, <3>1, MovesWithFinals DEF Places
    <3>3. QED
      BY <2>1, <3>2 DEF Fine
  <2>2. CASE PutRaises(formal, formal', id) /\ Goto(p, "undo")
    <3>1. formal' \in {formal, formal \cup {id}}
      BY <2>2 DEF PutRaises
    <3>2. /\ litter' \in BOOLEAN /\ (litter => litter')
          /\ ~litter' => formal' = formal
      BY <1>2, <2>2, <3>1 DEF PutRaises, TypeOK
    <3>3. MovesTo(p, "undo", calls[p].todo, calls[p].temps, calls[p].finals)
      BY <1>0, <1>2, <2>2, GotoMoves DEF Places
    <3>4. QED
      BY <3>1, <3>2, <3>3
  <2>3. QED
    BY <1>1, <2>1, <2>2
<1>5. /\ calls' \in [Calls -> CallState]
      /\ calls'[p].pc = pc /\ calls'[p].temps = calls[p].temps
      /\ calls'[p].todo = calls[p].todo /\ calls'[p].finals = finals
  BY <1>4 DEF MovesTo
<1>6. raises' \in Nat /\ crashes' \in Nat
  BY <1>1, <1>2, BoundsAssumption DEF TypeOK, Fine, PutRaises, Raise
<1>7. TypeOK'
  BY <1>0, <1>2, <1>3, <1>4, <1>5, <1>6 DEF TypeOK, CopyDraft
<1>8. WholeSet' /\ Own(p)
  BY <1>0, <1>2, <1>3, <1>4 DEF WholeSet, Own
<1>9. PublisherKeys(p)'
  <2>1. CASE pc = "put"
    <3>1. /\ calls[p].finals \subseteq calls[p].temps
          /\ \A a, b \in calls[p].temps \ calls[p].finals : a = b
      BY <1>0, <1>2 DEF PublisherKeys
    <3>2. finals = calls[p].temps
      BY <1>1, <1>4, <2>1, <3>1
    <3>3. finals \subseteq Whole(p)
      BY <1>2, <3>2 DEF PublisherKeys, Whole
    <3>4. QED
      BY <1>2, <1>5, <2>1, <3>2, <3>3 DEF PublisherKeys
  <2>2. CASE pc = "undo"
    BY <1>2, <1>4, <1>5, <2>2 DEF PublisherKeys
  <2>3. QED
    BY <1>4, <2>1, <2>2
<1>10. Recorded(p)' /\ Stored(p)'
  BY <1>0, <1>2, <1>4, <1>5 DEF Recorded, Uncommitted, Stored
<1>11. Settled(p)'
  BY <1>0, <1>2, <1>4, <1>5 DEF Settled, Active
<1>12. QED
  BY <1>0, <1>2, <1>4, <1>7, <1>8, <1>9, <1>10, <1>11, CallStep

LEMMA PutManifestStep ==
  ASSUME StorageInv, NEW p \in Publishers, PutManifest(p)
  PROVE  StorageInv'
<1>0. /\ p \in Calls /\ job \in {"live", "deleted"} /\ calls[p].pc = "put"
      /\ calls[p].todo = {}
      /\ UNCHANGED <<job, session, expired, temporary, rows, purge, late>>
  BY ActiveBeforeDue DEF Calls, Active, At, PutManifest, PutRaises, Raise, Fine
<1>1. Manifest(p) \in Ids /\ Manifest(p).by = p
  BY <1>0, IdsDiffer
<1>2. /\ TypeOK /\ Recorded(p) /\ Stored(p) /\ Settled(p) /\ WholeSet
      /\ p \notin Completers /\ PublisherKeys(p)
      /\ calls[p].finals = Drafts(p, Kinds \ calls[p].todo)
      /\ calls[p].temps \in SUBSET Ids /\ calls[p].finals \in SUBSET Ids
  BY <1>0, BeforeStep, FieldsOfCall DEF PublisherKeys
<1>3. calls[p].finals \cup {Manifest(p)} = Whole(p)
  BY <1>0, <1>2 DEF Whole, Drafts
<1>4. PICK pc, finals :
        /\ MovesTo(p, pc, calls[p].todo, calls[p].temps, finals)
        /\ \/ /\ pc = "commit" /\ finals = Whole(p)
              /\ formal' = formal \cup {Manifest(p)} /\ litter' = litter
           \/ /\ pc = "undo" /\ finals = calls[p].finals
              /\ formal' \in {formal, formal \cup {Manifest(p)}}
              /\ litter' \in BOOLEAN /\ (litter => litter')
              /\ ~litter' => formal' = formal
  <2>1. CASE /\ formal' = formal \cup {Manifest(p)} /\ Fine
             /\ calls' = [calls EXCEPT ![p].pc = "commit",
                                       ![p].finals = @ \cup {Manifest(p)}]
    <3>0. calls \in [Calls -> CallState] /\ calls[p] \in CallState
      BY <1>0, <1>2, FieldsOfCall
    <3>1. calls' = [calls EXCEPT ![p].pc = "commit",
                                 ![p].finals = calls[p].finals \cup {Manifest(p)}]
      BY <1>0, <2>1, <3>0 DEF CallState
    <3>2. MovesTo(p, "commit", calls[p].todo, calls[p].temps,
                  calls[p].finals \cup {Manifest(p)})
      BY <1>0, <1>1, <1>2, <3>1, MovesWithFinals DEF Places
    <3>3. QED
      BY <1>3, <2>1, <3>2 DEF Fine
  <2>2. CASE PutRaises(formal, formal', Manifest(p)) /\ Goto(p, "undo")
    <3>1. formal' \in {formal, formal \cup {Manifest(p)}}
      BY <2>2 DEF PutRaises
    <3>2. /\ litter' \in BOOLEAN /\ (litter => litter')
          /\ ~litter' => formal' = formal
      BY <1>2, <2>2, <3>1 DEF PutRaises, TypeOK
    <3>3. MovesTo(p, "undo", calls[p].todo, calls[p].temps, calls[p].finals)
      BY <1>0, <1>2, <2>2, GotoMoves DEF Places
    <3>4. QED
      BY <3>1, <3>2, <3>3
  <2>3. QED
    BY <2>1, <2>2 DEF PutManifest
<1>5. /\ calls' \in [Calls -> CallState]
      /\ calls'[p].pc = pc /\ calls'[p].temps = calls[p].temps
      /\ calls'[p].finals = finals
  BY <1>4 DEF MovesTo
<1>6. raises' \in Nat /\ crashes' \in Nat
  BY <1>2, BoundsAssumption DEF TypeOK, PutManifest, Fine, PutRaises, Raise
<1>7. TypeOK'
  BY <1>0, <1>1, <1>2, <1>4, <1>5, <1>6 DEF TypeOK
<1>8. WholeSet' /\ Own(p)
  BY <1>0, <1>1, <1>2, <1>4 DEF WholeSet, Own
<1>9. PublisherKeys(p)'
  BY <1>2, <1>4, <1>5 DEF PublisherKeys
<1>10. Recorded(p)' /\ Stored(p)'
  BY <1>0, <1>2, <1>3, <1>4, <1>5 DEF Recorded, Uncommitted, Stored
<1>11. Settled(p)'
  BY <1>0, <1>2, <1>3, <1>4, <1>5 DEF Settled, Active
<1>12. QED
  BY <1>0, <1>2, <1>4, <1>7, <1>8, <1>9, <1>10, <1>11, CallStep

\* The rows of a publication are committed together, where there were none.
LEMMA CommitRowsStep ==
  ASSUME StorageInv, NEW p \in Publishers, CommitRows(p)
  PROVE  StorageInv'
<1>0. /\ p \in Calls /\ job \in {"live", "deleted"} /\ calls[p].pc = "commit"
      /\ UNCHANGED <<job, session, expired, temporary, formal, purge, litter>>
  BY ActiveBeforeDue DEF Calls, Active, At, CommitRows, CommitRaises, Raise, Fine
<1>1. /\ TypeOK /\ Recorded(p) /\ Stored(p) /\ Settled(p) /\ WholeSet
      /\ p \notin Completers /\ PublisherKeys(p)
      /\ calls[p].finals = Whole(p)
      /\ calls[p].temps \in SUBSET Ids /\ calls[p].finals \in SUBSET Ids
  BY <1>0, BeforeStep, FieldsOfCall DEF PublisherKeys
<1>2. PICK pc :
        /\ MovesTo(p, pc, calls[p].todo, calls[p].temps, calls[p].finals)
        /\ \/ pc = "tidy" /\ ~VersionTaken /\ rows' = rows \cup Whole(p) /\ late' = late
           \/ /\ pc = "undo"
              /\ rows' # rows => ~VersionTaken /\ rows' = rows \cup Whole(p)
              /\ late' \in BOOLEAN /\ (late => late')
              /\ ~late' => rows' = rows
  <2>1. CASE ~VersionTaken /\ rows' = rows \cup calls[p].finals /\ Goto(p, "tidy") /\ Fine
    BY <1>0, <1>1, <2>1, GotoMoves DEF Places, Fine
  <2>2. CASE VersionTaken /\ Goto(p, "undo") /\ UNCHANGED rows /\ Fine
    BY <1>0, <1>1, <2>2, GotoMoves DEF Places, Fine, TypeOK
  <2>3. CASE ~VersionTaken /\ CommitRaises(p, calls[p].finals)
    <3>1. /\ rows' \in {rows, rows \cup Whole(p)}
          /\ late' \in BOOLEAN /\ (late => late')
          /\ ~late' => rows' = rows
      BY <1>1, <2>3 DEF CommitRaises, TypeOK
    <3>2. MovesTo(p, "undo", calls[p].todo, calls[p].temps, calls[p].finals)
      BY <1>0, <1>1, <2>3, GotoMoves DEF Places, CommitRaises
    <3>3. QED
      BY <2>3, <3>1, <3>2
  <2>4. QED
    BY <2>1, <2>2, <2>3 DEF CommitRows
<1>3. /\ calls' \in [Calls -> CallState]
      /\ calls'[p].pc = pc /\ calls'[p].temps = calls[p].temps
      /\ calls'[p].finals = calls[p].finals
  BY <1>2 DEF MovesTo
<1>4. raises' \in Nat /\ crashes' \in Nat
  BY <1>1, BoundsAssumption DEF TypeOK, CommitRows, Fine, CommitRaises, Raise
<1>5. TypeOK'
  BY <1>0, <1>1, <1>2, <1>3, <1>4 DEF TypeOK
<1>6. \A id \in Whole(p) : id.by = p /\ id.kind # "media"
  <2>1. Manifest(p).by = p /\ Manifest(p).kind # "media"
    BY DEF Manifest
  <2>2. \A k \in Kinds : Draft(p, k).by = p /\ Draft(p, k).kind # "media"
    BY KindsAssumption DEF Draft
  <2>3. QED
    BY <2>1, <2>2 DEF Whole, Drafts
<1>7. Own(p)
  <2>1. rows' = rows \/ rows' = rows \cup Whole(p)
    BY <1>2
  <2>2. late => late'
    BY <1>2
  <2>3. QED
    BY <1>0, <1>6, <2>1, <2>2 DEF Own
<1>8. WholeSet'
  <2>1. CASE rows' = rows
    BY <1>1, <2>1 DEF WholeSet
  <2>2. CASE ~VersionTaken /\ rows' = rows \cup Whole(p)
    <3>1. {r \in rows' : r.kind # "media"} = Whole(p)
      BY <1>6, <2>2 DEF VersionTaken
    <3>2. QED
      BY <3>1 DEF WholeSet, Whole, Drafts
  <2>3. QED
    BY <1>2, <2>1, <2>2
<1>9. PublisherKeys(p)'
  BY <1>1, <1>2, <1>3 DEF PublisherKeys
<1>10. Recorded(p)' /\ Stored(p)'
  BY <1>0, <1>1, <1>2, <1>3 DEF Recorded, Uncommitted, Stored
<1>11. Settled(p)'
  <2>1. Active(p)' /\ (late => late')
    BY <1>2, <1>3 DEF Active
  <2>2. job = "live" /\ ~late' => \A r \in rows' : r.by = p => r \in formal
    BY <1>0, <1>1, <1>2, <2>1 DEF Settled, Stored
  <2>3. \A id \in formal \ rows' : id \in formal \ rows
    BY <1>2
  <2>4. QED
    BY <1>0, <1>1, <1>3, <2>1, <2>2, <2>3 DEF Settled
<1>12. QED
  BY <1>0, <1>1, <1>2, <1>5, <1>7, <1>8, <1>9, <1>10, <1>11, CallStep

LEMMA RemoveDraftStep ==
  ASSUME StorageInv, NEW p \in Publishers, RemoveDraft(p)
  PROVE  StorageInv'
<1>0. /\ p \in Calls /\ job \in {"live", "deleted"} /\ calls[p].pc = "tidy"
      /\ UNCHANGED <<job, session, expired, formal, rows, purge>>
  BY ActiveBeforeDue DEF Calls, Active, At, RemoveDraft
<1>1. /\ TypeOK /\ Recorded(p) /\ Stored(p) /\ Settled(p) /\ WholeSet
      /\ p \notin Completers /\ PublisherKeys(p)
      /\ calls[p].temps \in SUBSET Ids /\ calls[p].finals \in SUBSET Ids
      /\ calls[p].finals \subseteq rows
  BY <1>0, BeforeStep, FieldsOfCall DEF Recorded
<1>2. PICK pc, temps :
        /\ MovesTo(p, pc, calls[p].todo, temps, calls[p].finals)
        /\ \/ /\ pc = "ended" /\ temps = {} /\ calls[p].temps = {}
              /\ temporary' = temporary
              /\ late' = late /\ litter' = litter
           \/ /\ pc = "tidy" /\ late' = late /\ litter' = litter
              /\ \E id \in calls[p].temps :
                   temps = calls[p].temps \ {id} /\ temporary' = temporary \ {id}
           \/ /\ pc = "undo" /\ temps = calls[p].temps /\ temporary' \subseteq temporary
              /\ late' = TRUE
              /\ litter' \in BOOLEAN /\ (litter => litter')
  <2>1. CASE calls[p].temps = {} /\ Goto(p, "ended") /\ UNCHANGED temporary /\ Fine
    <3>1. MovesTo(p, "ended", calls[p].todo, calls[p].temps, calls[p].finals)
      BY <1>0, <1>1, <2>1, GotoMoves DEF Places
    <3>2. QED
      BY <2>1, <3>1 DEF Fine
  <2>2. ASSUME NEW id \in calls[p].temps,
               temporary' = temporary \ {id}, Fine,
               calls' = [calls EXCEPT ![p].temps = @ \ {id}]
        PROVE  /\ MovesTo(p, "tidy", calls[p].todo, calls[p].temps \ {id}, calls[p].finals)
               /\ late' = late /\ litter' = litter
    <3>1. calls' = [calls EXCEPT ![p].temps = calls[p].temps \ {id}]
      BY <2>2
    <3>2. calls[p].temps \ {id} \in SUBSET Ids
      BY <1>1
    <3>3. MovesTo(p, calls[p].pc, calls[p].todo, calls[p].temps \ {id}, calls[p].finals)
      BY <1>0, <1>1, <3>1, <3>2, MovesRemoving
    <3>4. QED
      BY <1>0, <2>2, <3>3 DEF Fine
  <2>3. ASSUME NEW id \in calls[p].temps,
               RemoveRaises(temporary, temporary', id), late' = TRUE, Goto(p, "undo")
        PROVE  /\ MovesTo(p, "undo", calls[p].todo, calls[p].temps, calls[p].finals)
               /\ temporary' \subseteq temporary
               /\ litter' \in BOOLEAN /\ (litter => litter')
    BY <1>0, <1>1, <2>3, GotoMoves DEF Places, RemoveRaises, TypeOK
  <2>4. QED
    BY <2>1, <2>2, <2>3 DEF RemoveDraft
<1>3. /\ calls' \in [Calls -> CallState]
      /\ calls'[p].pc = pc /\ calls'[p].temps = temps
      /\ calls'[p].finals = calls[p].finals
  BY <1>2 DEF MovesTo
<1>10. /\ temps \subseteq calls[p].temps /\ temporary' \subseteq temporary
       /\ (late => late') /\ (litter => litter')
  BY <1>2
<1>4. raises' \in Nat /\ crashes' \in Nat
  BY <1>1, BoundsAssumption DEF TypeOK, RemoveDraft, Fine, RemoveRaises, Raise
<1>5. TypeOK'
  BY <1>0, <1>1, <1>2, <1>3, <1>4, <1>10 DEF TypeOK
<1>6. WholeSet' /\ Own(p)
  BY <1>0, <1>1, <1>10 DEF WholeSet, Own
<1>7. PublisherKeys(p)'
  BY <1>0, <1>1, <1>2, <1>3, <1>10 DEF PublisherKeys
<1>8. Recorded(p)' /\ Stored(p)'
  BY <1>0, <1>1, <1>2, <1>3 DEF Recorded, Uncommitted, Stored
<1>9. Settled(p)'
  <2>1. ~litter =>
          /\ \A id \in formal \ rows : id.by # p
          /\ \A id \in temporary : id.by = p => id \in calls[p].temps
    BY <1>1 DEF Settled
  <2>2. ~litter => \A id \in temporary' : id.by = p => id \in temps /\ pc # "ended"
    BY <1>2, <1>3, <1>10, <2>1
  <2>3. job = "live" /\ ~late => \A r \in rows : r.by = p => r \in formal
    BY <1>1 DEF Settled
  <2>4. ~litter' => \A id \in temporary' : id.by = p => Active(p)' /\ id \in calls'[p].temps
    BY <1>2, <1>3, <1>10, <2>2 DEF Active
  <2>5. QED
    BY <1>0, <1>3, <1>10, <2>1, <2>3, <2>4 DEF Settled
<1>11. QED
  BY <1>0, <1>1, <1>2, <1>5, <1>6, <1>7, <1>8, <1>9, CallStep

-----------------------------------------------------------------------------
(* The clean-up, and death                                                 *)

\* Call c removes some of what it holds, or has removed it all.
Removes(c, pc, temps, finals) ==
  /\ MovesTo(c, pc, calls[c].todo, temps, finals)
  /\ temps \subseteq calls[c].temps /\ finals \subseteq calls[c].finals
  /\ pc # "undo" => pc = "ended" /\ calls[c].temps = {} /\ calls[c].finals = {}
  /\ temporary' = temporary \ (calls[c].temps \ temps)
  /\ formal' = formal \ (calls[c].finals \ finals)

LEMMA UndoStep ==
  ASSUME StorageInv, NEW c \in Calls, Undo(c)
  PROVE  StorageInv'
<1>0. /\ job \in {"live", "deleted"} /\ calls[c].pc = "undo"
      /\ UNCHANGED <<job, session, expired, rows, purge, late, litter, raises, crashes>>
  BY ActiveBeforeDue DEF Active, At, Undo, Fine
<1>1. /\ TypeOK /\ Recorded(c) /\ Stored(c) /\ Settled(c) /\ WholeSet
      /\ calls[c].temps \in SUBSET Ids /\ calls[c].finals \in SUBSET Ids
      /\ c \in Completers => c \notin Publishers /\ CompleterKeys(c)
      /\ c \in Publishers => c \notin Completers /\ PublisherKeys(c)
  BY <1>0, BeforeStep, FieldsOfCall
<1>2. PICK pc, temps, finals : Removes(c, pc, temps, finals)
  <2>1. ASSUME NEW id \in calls[c].temps,
               calls' = [calls EXCEPT ![c].temps = @ \ {id}],
               temporary' = temporary \ {id}, UNCHANGED formal
        PROVE  \E pc, temps, finals : Removes(c, pc, temps, finals)
    <3>1. calls' = [calls EXCEPT ![c].temps = calls[c].temps \ {id}]
      BY <2>1
    <3>2. calls[c].temps \ {id} \in SUBSET Ids
      BY <1>1
    <3>3. MovesTo(c, calls[c].pc, calls[c].todo, calls[c].temps \ {id}, calls[c].finals)
      BY <1>1, <3>1, <3>2, MovesRemoving
    <3>4. calls[c].temps \ (calls[c].temps \ {id}) = {id}
      OBVIOUS
    <3>5. QED
      BY <1>0, <2>1, <3>3, <3>4 DEF Removes
  <2>2. ASSUME NEW id \in calls[c].finals,
               calls' = [calls EXCEPT ![c].finals = @ \ {id}],
               formal' = formal \ {id}, UNCHANGED temporary
        PROVE  \E pc, temps, finals : Removes(c, pc, temps, finals)
    <3>1. calls' = [calls EXCEPT ![c].finals = calls[c].finals \ {id}]
      BY <2>2
    <3>2. calls[c].finals \ {id} \in SUBSET Ids
      BY <1>1
    <3>3. MovesTo(c, calls[c].pc, calls[c].todo, calls[c].temps, calls[c].finals \ {id})
      BY <1>1, <3>1, <3>2, MovesRemoving
    <3>4. calls[c].finals \ (calls[c].finals \ {id}) = {id}
      OBVIOUS
    <3>5. QED
      BY <1>0, <2>2, <3>3, <3>4 DEF Removes
  <2>3. CASE /\ calls[c].temps = {} /\ calls[c].finals = {}
             /\ Goto(c, "ended") /\ UNCHANGED <<temporary, formal>>
    <3>1. MovesTo(c, "ended", calls[c].todo, calls[c].temps, calls[c].finals)
      BY <1>1, <2>3, GotoMoves DEF Places
    <3>2. QED
      BY <2>3, <3>1 DEF Removes
  <2>4. QED
    BY <2>1, <2>2, <2>3 DEF Undo
<1>3. /\ calls' \in [Calls -> CallState]
      /\ calls'[c].pc = pc /\ calls'[c].temps = temps /\ calls'[c].finals = finals
  BY <1>2 DEF Removes, MovesTo
<1>4. TypeOK' /\ WholeSet'
  BY <1>0, <1>1, <1>2, <1>3 DEF TypeOK, WholeSet, Removes
<1>5. Own(c)
  <2>1. \A id \in calls[c].finals : id.by = c
    BY OwnKeys DEF StorageInv
  <2>2. QED
    BY <1>0, <1>2, <2>1 DEF Own, Removes
<1>6. c \in Completers => CompleterKeys(c)'
  BY <1>0, <1>1, <1>2, <1>3 DEF CompleterKeys, Removes
<1>7. c \in Publishers => PublisherKeys(c)'
  BY <1>0, <1>1, <1>2, <1>3 DEF PublisherKeys, Removes
<1>8. Recorded(c)' /\ Stored(c)'
  BY <1>0, <1>1, <1>2, <1>3 DEF Recorded, Uncommitted, Stored, Removes
<1>9. Settled(c)'
  <2>1. ~late => \A r \in rows : r.by # c
    BY <1>0, <1>1 DEF Recorded, Uncommitted
  <2>2. ~litter =>
          /\ \A id \in formal \ rows : id.by = c => id \in calls[c].finals
          /\ \A id \in temporary : id.by = c => id \in calls[c].temps
    BY <1>1 DEF Settled
  <2>3. ~litter =>
          /\ \A id \in formal' \ rows : id.by = c => id \in finals /\ pc = "undo"
          /\ \A id \in temporary' : id.by = c => id \in temps /\ pc = "undo"
    BY <1>2, <2>2 DEF Removes
  <2>4. QED
    BY <1>0, <1>3, <2>1, <2>3 DEF Settled, Active
<1>10. QED
  BY <1>0, <1>1, <1>2, <1>4, <1>5, <1>6, <1>7, <1>8, <1>9, CallStep DEF Removes

LEMMA AbandonStep ==
  ASSUME StorageInv, NEW c \in Calls, Abandon(c)
  PROVE  StorageInv'
<1>0. /\ job \in {"live", "deleted"} /\ calls[c].pc # "ended"
      /\ UNCHANGED <<job, session, expired, temporary, formal, rows, purge, late>>
      /\ litter' = TRUE
  BY ActiveBeforeDue DEF Active, Abandon
<1>1. /\ TypeOK /\ Settled(c) /\ WholeSet
      /\ c \in Completers => c \notin Publishers /\ CompleterKeys(c)
      /\ c \in Publishers => c \notin Completers /\ PublisherKeys(c)
  BY <1>0, BeforeStep
<1>2. MovesTo(c, "ended", calls[c].todo, calls[c].temps, calls[c].finals)
  BY <1>1, GotoMoves DEF Abandon, Places
<1>3. /\ calls' \in [Calls -> CallState]
      /\ calls'[c].pc = "ended" /\ calls'[c].temps = calls[c].temps
      /\ calls'[c].finals = calls[c].finals
  BY <1>2 DEF MovesTo
<1>4. raises' \in Nat /\ crashes' \in Nat
  BY <1>1, BoundsAssumption DEF TypeOK, Abandon, Raise
<1>5. TypeOK' /\ WholeSet' /\ Own(c)
  BY <1>0, <1>1, <1>3, <1>4 DEF TypeOK, WholeSet, Own
<1>6. c \in Completers => CompleterKeys(c)'
  BY <1>1, <1>3 DEF CompleterKeys
<1>7. c \in Publishers => PublisherKeys(c)'
  BY <1>1, <1>3 DEF PublisherKeys
<1>8. Recorded(c)' /\ Stored(c)' /\ Settled(c)'
  BY <1>0, <1>1, <1>3 DEF Recorded, Uncommitted, Stored, Settled
<1>9. QED
  BY <1>0, <1>1, <1>2, <1>5, <1>6, <1>7, <1>8, CallStep

-----------------------------------------------------------------------------
(* The theorems                                                            *)

LEMMA StorageStep ==
  ASSUME StorageInv, [Next]_vars
  PROVE  StorageInv'
<1>1. CASE Issue \/ ClientPut \/ Expire \/ Delete \/ Due
  BY <1>1, OthersStep
<1>2. ASSUME NEW c \in Completers, Completion(c)
      PROVE  StorageInv'
  BY <1>2, QuietCompletion, CopyMediaStep, InsertAssetStep, RemoveUploadStep
  DEF Completion
<1>3. ASSUME NEW p \in Publishers, Publication(p)
      PROVE  StorageInv'
  BY <1>3, QuietPublication, PutDraftStep, CopyDraftStep, PutManifestStep,
     CommitRowsStep, RemoveDraftStep
  DEF Publication
<1>4. ASSUME NEW c \in Calls, Undo(c) \/ Abandon(c)
      PROVE  StorageInv'
  BY <1>4, UndoStep, AbandonStep
<1>5. CASE PurgeScan \/ PurgeObject \/ PurgeFormal \/ PurgeRows \/ PurgeStops
  BY <1>5, PurgeStep
<1>6. CASE UNCHANGED vars
  <2>1. TypeOK'
    BY <1>6 DEF vars, StorageInv, TypeOK
  <2>2. KeysAreOwn'
    BY <1>6 DEF vars, StorageInv, KeysAreOwn, CompleterKeys, PublisherKeys
  <2>3. CallsAreTrue'
    BY <1>6 DEF vars, StorageInv, CallsAreTrue, Recorded, Uncommitted, Stored
  <2>4. SessionIsTrue' /\ Accounted'
    BY <1>6 DEF vars, StorageInv, SessionIsTrue, Accounted, Active
  <2>5. DueIsQuiet' /\ PurgeIsThorough'
    BY <1>6 DEF vars, StorageInv, DueIsQuiet, Active, PurgeIsThorough
  <2>6. RowHasObject' /\ WholeSet' /\ PurgedIsEmpty'
    BY <1>6 DEF vars, StorageInv, RowHasObject, WholeSet, PurgedIsEmpty
  <2>7. QED
    BY <2>1, <2>2, <2>3, <2>4, <2>5, <2>6 DEF StorageInv
<1>7. QED
  BY <1>1, <1>2, <1>3, <1>4, <1>5, <1>6 DEF Next

\* What the calls hold, store and record stays true in every behaviour of
\* complete_upload, publish_artifacts and purge_due_jobs.
THEOREM StorageInvariant == Spec => []StorageInv
<1>1. Init => StorageInv
  BY StorageStart
<1>2. StorageInv /\ [Next]_vars => StorageInv'
  BY StorageStep
<1>3. QED
  BY <1>1, <1>2, PTL DEF Spec

\* Objects, rows, calls and the purge always have their types.
THEOREM StorageTypes == Spec => []TypeOK
<1>1. StorageInv => TypeOK
  BY DEF StorageInv
<1>2. QED
  BY <1>1, StorageInvariant, PTL

\* However many calls raise, die and collide, what rows and sessions claim is
\* in the store.
THEOREM RowsStayTrue == Spec => []RowsAreTrue
<1>1. StorageInv => RowsAreTrue
  BY DEF StorageInv, RowsAreTrue, RowHasObject, SessionIsTrue, CompletedHasAsset
<1>2. QED
  BY <1>1, StorageInvariant, PTL

\* Readers find no artifact or all of one publication, however many publish
\* the same version.
THEOREM SetsStayWhole == Spec => []WholeSet
<1>1. StorageInv => WholeSet
  BY DEF StorageInv
<1>2. QED
  BY <1>1, StorageInvariant, PTL

\* Neither a failed call whose clean-up could be done nor a purged job leaves
\* objects that no row names.
THEOREM NothingIsOrphaned == Spec => []NoOrphans
<1>1. StorageInv => NoOrphans
  BY DEF StorageInv, NoOrphans, NothingLeftBehind, Accounted, Active, PurgedIsEmpty
<1>2. QED
  BY <1>1, StorageInvariant, PTL

=============================================================================
