---------------------------- MODULE TaskCacheProofs ----------------------------
(***************************************************************************)
(* Proofs about TaskCache, for any number of runners, keys, files, runs,   *)
(* edits and crashes: a hit on the entry of an undisturbed run restores    *)
(* what a run would make now, the run after an undisturbed one hits, and   *)
(* rows have what they name.                                               *)
(*                                                                         *)
(* The argument rests on when a runner's archive name becomes public: the  *)
(* name is used by nobody else before the entry that names it is written,  *)
(* so nobody deletes or replaces an archive that is still being made; and  *)
(* on what an undisturbed runner knows of the tree at each of its steps.   *)
(* And proofs about CacheFolder, for any number of processes and schemas,  *)
(* and about Fingerprint, for any tree, calls and configuration.           *)
(***************************************************************************)
EXTENDS TaskCache, CacheFolder, Fingerprint, TLAPS

PartOfTree == UNION {[S -> Contents] : S \in SUBSET Files}

Hand == [id : Ids \cup {None}, key : Keys \cup {None}, hashed : [Globbed -> Contents] \cup {None},
         got : Entry \cup {None}, read : PartOfTree \cup {None}, entry : Entry \cup {None},
         old : Ids \cup Keys \cup {None}]

-----------------------------------------------------------------------------
(* The inductive invariant.                                                *)

Labels == {"off", "get", "explain", "missed", "reading", "validate", "associate", "restore",
           "exited", "archive", "getold", "delete", "upsert", "map"}

TypeOK ==
  /\ disk \in Tree
  /\ out \in Tree \cup {None}
  /\ entries \in [Keys -> Entry \cup {None}]
  /\ mapped \in Keys \cup {None}
  /\ archives \in [Ids -> Stored \cup {None}]
  /\ pc \in [Runners -> Labels]
  /\ run \in [Runners -> Hand]
  /\ disturbed \subseteq Runners
  /\ cut \subseteq Keys
  /\ runs \in 0 .. MaxRuns /\ edits \in Nat /\ crashes \in Nat

(* What a runner has in hand at each of its steps.                         *)
InHand(r) ==
  /\ pc[r] # "off" => run[r].id \in 1 .. runs /\ run[r].key \in Keys
                      /\ run[r].hashed \in [Globbed -> Contents]
  /\ pc[r] \in {"validate", "associate", "restore"} => run[r].got # None
  /\ pc[r] \in {"reading", "exited"} => run[r].read \in PartOfTree
  /\ pc[r] = "exited" => DOMAIN run[r].read = Files
  /\ pc[r] \in {"archive", "getold", "delete", "upsert"} => run[r].entry # None
  /\ run[r].entry # None => pc[r] # "off" /\ run[r].entry.archive = run[r].id
  /\ pc[r] \in {"delete", "upsert"} => run[r].old \in Ids \cup {None}

(* No two runs have one name.                                              *)
NamesDiffer ==
  \A q, r \in Runners : q # r /\ pc[q] # "off" /\ pc[r] # "off" => run[q].id # run[r].id

(* The names of runs whose entry is written or never will be.              *)
Public == {i \in 1 .. runs : \A r \in Runners : pc[r] \notin {"off", "map"} => run[r].id # i}

(* Only public names are named.                                            *)
NamesPublic ==
  /\ \A k \in Keys : entries[k] # None => entries[k].archive \in Public
  /\ \A r \in Runners : run[r].got # None => run[r].got.archive \in Public
  /\ \A r \in Runners : pc[r] \in {"delete", "upsert"} /\ run[r].old # None
                          => run[r].old \in Public

(* An archive belongs to one key.                                          *)
OneKey ==
  /\ \A k, l \in Keys : k # l /\ entries[k] # None /\ entries[l] # None
                          => entries[k].archive # entries[l].archive
  /\ \A r \in Runners, k \in Keys :
       pc[r] \in {"delete", "upsert"} /\ k # run[r].key /\ entries[k] # None
         => entries[k].archive # run[r].old

(* The archive of an entry about to be written is there; the key that will *)
(* be mapped has an entry.                                                 *)
RowsInv ==
  /\ \A r \in Runners : pc[r] \in {"getold", "delete", "upsert"} => archives[run[r].id] # None
  /\ \A r \in Runners : pc[r] \in {"validate", "associate", "restore", "map"}
                          => entries[run[r].key] # None
  /\ RowsBacked

(* The archive of an undisturbed run's entry was made of the inputs that   *)
(* the entry names, and the entry has them as the run left them.           *)
TrueOf(e, a) ==
  /\ e.after = e.inferred
  /\ e.quiet /\ a # None
       => /\ a.out # None
          /\ \A f \in Globbed : a.out[f] = e.hashed[f]
          /\ \A f \in Files \ (Globbed \cup Written) : a.out[f] = e.inferred[f]

EntriesTrue ==
  /\ \A k \in Keys : entries[k] # None => TrueOf(entries[k], archives[entries[k].archive])
  /\ \A r \in Runners : run[r].got # None => TrueOf(run[r].got, archives[run[r].got.archive])
  /\ \A r \in Runners : run[r].entry # None
                          => TrueOf(run[r].entry, archives[run[r].entry.archive])

(* The output is of the inputs that were hashed and that are there.        *)
OutputOf(r) ==
  /\ out # None
  /\ \A f \in Globbed : out[f] = run[r].hashed[f]
  /\ \A f \in Files \ (Globbed \cup Written) : out[f] = disk[f]

(* What a runner knows of the tree while nobody else changes it.           *)
Knows(r) ==
  /\ pc[r] \in {"get", "explain", "missed", "reading", "validate", "associate", "restore"}
       => \A f \in Globbed : disk[f] = run[r].hashed[f]
  /\ pc[r] = "reading" => \A f \in DOMAIN run[r].read : run[r].read[f] = disk[f]
  /\ pc[r] \in {"associate", "restore"} => Valid(run[r].got, run[r].hashed)
  /\ pc[r] \in {"exited", "archive"} => OutputOf(r)
  /\ pc[r] = "archive" => run[r].entry.hashed = run[r].hashed /\ run[r].entry.inferred = disk

CalmInv == \A r \in Runners \ disturbed : Knows(r)

HandsInv == \A r \in Runners : InHand(r)

CacheInv ==
  /\ TypeOK /\ HandsInv /\ NamesDiffer /\ NamesPublic /\ OneKey /\ RowsInv /\ EntriesTrue
  /\ CalmInv

-----------------------------------------------------------------------------
(* What a step changes.                                                    *)

(* The steps of a runner between its start and its end.                    *)
Step(r) ==
  \/ Get(r) \/ Explain(r) \/ Spawn(r) \/ Validate(r) \/ Associate(r)
  \/ \E f \in Files : Read(r, f)
  \/ Write(r)
  \/ Fingerprint(r) \/ Archive(r) \/ GetOld(r) \/ DeleteOld(r) \/ UpsertEntry(r)

(* Its ends.                                                               *)
End(r) == Restore(r) \/ Refuse(r) \/ UpsertMapping(r) \/ Crash(r)

LEMMA RunnerSteps ==
  ASSUME NEW r \in Runners, Runner(r)
  PROVE  (\E k \in Keys : Start(r, k)) \/ Step(r) \/ End(r)
BY DEF Runner, Step, End

LEMMA StartChanges ==
  ASSUME TypeOK, NEW r \in Runners, NEW k \in Keys, Start(r, k)
  PROVE  /\ run' = [run EXCEPT ![r] = run'[r]]
         /\ \A q \in Runners \ {r} : run'[q] = run[q] /\ pc'[q] = pc[q]
         /\ pc[r] = "off" /\ pc'[r] = "get" /\ runs' = runs + 1
         /\ run'[r] = [id |-> runs + 1, key |-> k, hashed |-> [f \in Globbed |-> disk[f]],
                       got |-> None, read |-> None, entry |-> None, old |-> None]
BY DEF TypeOK, Start, Goto, Idle, Hand

LEMMA StartHand ==
  ASSUME TypeOK, NEW r \in Runners, NEW k \in Keys, Start(r, k)
  PROVE  /\ run'[r].id = runs + 1 /\ run'[r].key = k
         /\ run'[r].hashed = [f \in Globbed |-> disk[f]]
         /\ run'[r].got = None /\ run'[r].entry = None
<1> DEFINE all == [f \in Globbed |-> disk[f]]
<1>1. run'[r] = [id |-> runs + 1, key |-> k, hashed |-> all,
                 got |-> None, read |-> None, entry |-> None, old |-> None]
  BY StartChanges
<1> HIDE DEF all
<1>2. /\ run'[r].id = runs + 1 /\ run'[r].key = k /\ run'[r].hashed = all
      /\ run'[r].got = None /\ run'[r].entry = None
  BY <1>1
<1> QED
  BY <1>2 DEF all

LEMMA StepChanges ==
  ASSUME TypeOK, NEW r \in Runners, Step(r)
  PROVE  /\ \A q \in Runners \ {r} : run'[q] = run[q] /\ pc'[q] = pc[q]
         /\ run'[r].id = run[r].id /\ run'[r].key = run[r].key
         /\ run'[r].hashed = run[r].hashed
         /\ pc[r] # "off" /\ pc'[r] # "off" /\ pc[r] # "map" /\ runs' = runs
<1> USE DEF TypeOK, Hand, Set, Goto, bounds
<1>1. CASE Get(r)
  BY <1>1 DEF Get
<1>2. CASE Explain(r)
  BY <1>2 DEF Explain
<1>3. CASE Spawn(r)
  BY <1>3 DEF Spawn
<1>4. CASE Validate(r)
  BY <1>4 DEF Validate
<1>5. CASE Associate(r)
  BY <1>5 DEF Associate
<1>6. CASE Write(r)
  BY <1>6 DEF Write
<1>7. CASE Fingerprint(r)
  BY <1>7 DEF Fingerprint
<1>8. CASE Archive(r)
  BY <1>8 DEF Archive
<1>9. CASE GetOld(r)
  BY <1>9 DEF GetOld
<1>10. CASE DeleteOld(r)
  BY <1>10 DEF DeleteOld
<1>11. CASE UpsertEntry(r)
  BY <1>11 DEF UpsertEntry
<1>12. CASE \E f \in Files : Read(r, f)
  BY <1>12 DEF Read
<1> QED
  BY <1>1, <1>2, <1>3, <1>4, <1>5, <1>6, <1>7, <1>8, <1>9, <1>10, <1>11, <1>12 DEF Step

LEMMA EndChanges ==
  ASSUME TypeOK, NEW r \in Runners, End(r)
  PROVE  /\ run' = [run EXCEPT ![r] = Idle]
         /\ \A q \in Runners \ {r} : run'[q] = run[q] /\ pc'[q] = pc[q]
         /\ run'[r] = Idle /\ pc'[r] = "off"
         /\ pc[r] # "off" /\ runs' = runs /\ entries' = entries /\ archives' = archives
BY DEF TypeOK, End, Restore, Refuse, UpsertMapping, Crash, Finish, Goto, bounds, db

-----------------------------------------------------------------------------
(* Types.                                                                  *)

LEMMA TypeStep ==
  ASSUME Setting, TypeOK, HandsInv, [Next]_vars
  PROVE  TypeOK'
<1> USE DEF TypeOK, HandsInv, InHand, Goto, Labels
<1> DEFINE Rest == /\ disk' \in Tree /\ out' \in Tree \cup {None}
                   /\ entries' \in [Keys -> Entry \cup {None}] /\ mapped' \in Keys \cup {None}
                   /\ archives' \in [Ids -> Stored \cup {None}]
                   /\ pc' \in [Runners -> Labels]
                   /\ disturbed' \subseteq Runners /\ cut' \subseteq Keys
                   /\ runs' \in 0 .. MaxRuns /\ edits' \in Nat /\ crashes' \in Nat
<1>1. ASSUME NEW r \in Runners, NEW k \in Keys, Start(r, k)
      PROVE  TypeOK'
  <2>1. run'[r] \in Hand /\ run' = [run EXCEPT ![r] = run'[r]]
    <3>1. runs + 1 \in Ids
      BY <1>1 DEF Start, Setting, Ids
    <3>2. [f \in Globbed |-> disk[f]] \in [Globbed -> Contents]
      BY DEF Tree, Setting
    <3>3. run' = [run EXCEPT ![r] = run'[r]]
      BY <1>1, StartChanges
    <3>4. run'[r] = [id |-> runs + 1, key |-> k, hashed |-> [f \in Globbed |-> disk[f]],
                     got |-> None, read |-> None, entry |-> None, old |-> None]
      BY <1>1, StartChanges
    <3> QED
      BY <3>1, <3>2, <3>3, <3>4 DEF Hand
  <2>2. Rest
    BY <1>1 DEF Start, db, Setting
  <2> QED
    BY <2>1, <2>2
<1>2. ASSUME NEW r \in Runners, End(r)
      PROVE  TypeOK'
  <2>1. run' = [run EXCEPT ![r] = Idle] /\ Idle \in Hand
    BY <1>2, EndChanges DEF Hand, Idle
  <2>2. CASE Restore(r)
    <3>1. disk' \in Tree /\ out' \in Tree \cup {None}
      BY <1>2, <2>2 DEF Restore, Tree, Stored, Entry, Hand, Setting
    <3>2. Rest
      BY <2>2, <3>1 DEF Restore, Finish, Disturb, db, bounds
    <3> QED
      BY <2>1, <3>2
  <2>3. CASE Refuse(r) \/ UpsertMapping(r) \/ Crash(r)
    <3>1. Rest
      BY <2>3 DEF Refuse, UpsertMapping, Crash, Finish, tree, db, bounds
    <3> QED
      BY <2>1, <3>1
  <2> QED
    BY <1>2, <2>2, <2>3 DEF End
<1>3. ASSUME NEW r \in Runners, Step(r)
      PROVE  TypeOK'
  <2>1. run' = [run EXCEPT ![r] = run'[r]]
    BY <1>3 DEF Step, Set, Get, Explain, Spawn, Validate, Associate, Read, Write,
       Fingerprint, Archive, GetOld, DeleteOld, UpsertEntry
  <2>2. run'[r] \in Hand /\ Rest
    <3>1. CASE Get(r)
      <4>1. run'[r] = [run[r] EXCEPT !.got = entries[run[r].key]]
        BY <3>1 DEF Get, Set
      <4>2. entries[run[r].key] \in Entry \cup {None}
        BY <3>1 DEF Get
      <4>3. run'[r] \in Hand
        BY <4>1, <4>2 DEF Hand
      <4>4. Rest
        BY <3>1 DEF Get, tree, db, bounds
      <4> QED
        BY <4>3, <4>4
    <3>2. CASE Explain(r)
      <4>1. run'[r] = [run[r] EXCEPT !.old = mapped]
        BY <3>2 DEF Explain, Set
      <4>2. mapped \in Ids \cup Keys \cup {None}
        OBVIOUS
      <4>3. run'[r] \in Hand
        BY <4>1, <4>2 DEF Hand
      <4>4. Rest
        BY <3>2 DEF Explain, tree, db, bounds
      <4> QED
        BY <4>3, <4>4
    <3>3. CASE Spawn(r)
      <4>1. PICK x \in PartOfTree : x = [f \in {} |-> 0]
        <5>1. [f \in {} |-> 0] \in [{} -> Contents]
          OBVIOUS
        <5> QED
          BY <5>1 DEF PartOfTree
      <4>2. /\ run'[r] = [run[r] EXCEPT !.old = None, !.read = x]
            /\ run[r] \in Hand
        BY <3>3, <4>1 DEF Spawn
      <4>3. run'[r] \in Hand
        BY <4>2 DEF Hand
      <4>4. Rest
        BY <3>3 DEF Spawn, tree, db, bounds
      <4> QED
        BY <4>3, <4>4
    <3>4. CASE Validate(r)
      BY <3>4 DEF Validate, Set, Hand, tree, db, bounds
    <3>5. CASE Associate(r)
      BY <3>5 DEF Associate, Set, Hand, tree, db, bounds
    <3>6. CASE Write(r)
      BY <3>6 DEF Write, Set, Hand, tree, db, bounds, Tree, Own, Contents, PartOfTree, Setting, Disturb
    <3>7. CASE Fingerprint(r)
      <4>1. PICK x \in Entry : run'[r] = [run[r] EXCEPT !.entry = x]
        <5>1. [hashed |-> run[r].hashed, inferred |-> disk, archive |-> run[r].id,
               quiet |-> FALSE, after |-> disk] \in Entry
          BY <3>7 DEF Fingerprint, Entry, Tree, Ids, Setting
        <5>2. run'[r] = [run[r] EXCEPT !.entry =
                [hashed |-> run[r].hashed, inferred |-> disk, archive |-> run[r].id,
                 quiet |-> FALSE, after |-> disk]]
          BY <3>7 DEF Fingerprint, Set, AsLeft
        <5> QED
          BY <5>1, <5>2
      <4>2. run'[r] \in Hand
        BY <4>1 DEF Hand
      <4>3. Rest
        BY <3>7 DEF Fingerprint, tree, db, bounds
      <4> QED
        BY <4>2, <4>3
    <3>8. CASE Archive(r)
      <4>1. PICK x \in Entry : run'[r] = [run[r] EXCEPT !.entry = x]
        <5> DEFINE q == r \notin disturbed
        <5>2. run'[r] = [run[r] EXCEPT !.entry = [run[r].entry EXCEPT !.quiet = q]]
          BY <3>8 DEF Archive, Hand, Entry
        <5>3. q \in BOOLEAN /\ run[r].entry \in Entry
          BY <3>8 DEF Archive, Hand
        <5> HIDE DEF q
        <5>1. [run[r].entry EXCEPT !.quiet = q] \in Entry
          BY <5>3 DEF Entry
        <5> QED
          BY <5>1, <5>2
      <4>2. run'[r] \in Hand
        BY <4>1 DEF Hand
      <4>3. Rest
        BY <3>8 DEF Archive, tree, db, bounds, Stored, Tree, Setting
      <4> QED
        BY <4>2, <4>3
    <3>9. CASE GetOld(r)
      <4>1. PICK x \in Ids \cup {None} : run'[r] = [run[r] EXCEPT !.old = x]
        BY <3>9 DEF GetOld, Set, Entry
      <4>2. run'[r] \in Hand
        BY <4>1 DEF Hand
      <4>3. Rest
        BY <3>9 DEF GetOld, tree, db, bounds
      <4> QED
        BY <4>2, <4>3
    <3>10. CASE DeleteOld(r)
      BY <3>10 DEF DeleteOld, Set, Hand, tree, db, bounds
    <3>11. CASE UpsertEntry(r)
      BY <3>11 DEF UpsertEntry, Set, Hand, tree, db, bounds
    <3>12. ASSUME NEW f \in Files, Read(r, f)
           PROVE  run'[r] \in Hand /\ Rest
      <4>1. PICK S \in SUBSET Files : run[r].read \in [S -> Contents]
        BY <3>12, ZenonT(40) DEF Read, PartOfTree
      <4>2. PICK x \in PartOfTree : run'[r] = [run[r] EXCEPT !.read = x]
        <5> DEFINE x == [g \in S \cup {f} |-> IF g = f THEN disk[f] ELSE run[r].read[g]]
        <5>1. x \in [S \cup {f} -> Contents]
          BY <4>1 DEF Tree
        <5>2. x \in PartOfTree
          <6> HIDE DEF x
          <6>1. S \cup {f} \in SUBSET Files
            OBVIOUS
          <6> QED
            BY <5>1, <6>1 DEF PartOfTree
        <5>3. run'[r] = [run[r] EXCEPT !.read = x]
          BY <3>12, <4>1 DEF Read, Set
        <5> QED
          BY <5>2, <5>3
      <4>3. run'[r] \in Hand
        BY <4>2 DEF Hand
      <4>4. Rest
        BY <3>12 DEF Read, tree, db, bounds
      <4> QED
        BY <4>3, <4>4
    <3> QED
      BY <1>3, <3>1, <3>2, <3>3, <3>4, <3>5, <3>6, <3>7, <3>8, <3>9, <3>10, <3>11, <3>12 DEF Step
  <2> QED
    BY <2>1, <2>2
<1>4. CASE Edit
  <2>1. disk' \in Tree /\ out' \in Tree \cup {None}
    BY <1>4 DEF Edit, Tree, Contents, Own, Setting
  <2> QED
    BY <1>4, <2>1 DEF Edit, db
<1>5. CASE UNCHANGED vars
  BY <1>5 DEF vars, tree, db, bounds
<1> QED
  BY <1>1, <1>2, <1>3, <1>4, <1>5, RunnerSteps DEF Next

-----------------------------------------------------------------------------
(* What runners have in hand.                                              *)

LEMMA HandsStep ==
  ASSUME Setting, TypeOK, HandsInv, [Next]_vars
  PROVE  HandsInv'
<1> USE DEF HandsInv
<1>1. runs \in Nat /\ runs' \in Nat /\ runs <= runs'
  <2>1. runs \in Nat
    BY DEF TypeOK, Setting
  <2>2. runs' \in {runs, runs + 1}
    <3>1. ASSUME NEW r \in Runners, Runner(r) PROVE runs' \in {runs, runs + 1}
      BY <3>1, RunnerSteps, StepChanges, EndChanges DEF Start
    <3> QED
      BY <3>1 DEF Next, Edit, vars, bounds
  <2> QED
    BY <2>1, <2>2
<1>2. ASSUME NEW q \in Runners, run'[q] = run[q], pc'[q] = pc[q]
      PROVE  InHand(q)'
  BY <1>1, <1>2 DEF InHand
<1>3. ASSUME NEW r \in Runners, NEW k \in Keys, Start(r, k)
      PROVE  HandsInv'
  <2>1. InHand(r)'
    <3>1. [f \in Globbed |-> disk[f]] \in [Globbed -> Contents]
      BY DEF TypeOK, Tree, Setting
    <3>2. run'[r].hashed \in [Globbed -> Contents]
      BY <1>3, <3>1, StartHand
    <3>3. /\ run'[r].id = runs + 1 /\ run'[r].key = k /\ run'[r].entry = None
          /\ pc'[r] = "get" /\ runs' = runs + 1
      BY <1>3, StartHand, StartChanges
    <3>4. runs + 1 \in 1 .. runs'
      BY <1>1, <3>3
    <3> QED
      BY <3>2, <3>3, <3>4 DEF InHand
  <2> QED
    BY <1>2, <1>3, <2>1, StartChanges
<1>4. ASSUME NEW r \in Runners, End(r)
      PROVE  HandsInv'
  <2>1. InHand(r)'
    BY <1>4, EndChanges DEF InHand, Idle
  <2> QED
    BY <1>2, <1>4, <2>1, EndChanges
<1>5. ASSUME NEW r \in Runners, Step(r)
      PROVE  HandsInv'
  <2>1. InHand(r)'
    <3> USE <1>1, <1>5, StepChanges DEF InHand, Goto, Set, TypeOK, Hand
    <3>1. CASE Get(r)
      BY <3>1 DEF Get
    <3>2. CASE Explain(r)
      BY <3>2 DEF Explain
    <3>3. CASE Spawn(r)
      <4>1. [f \in {} |-> 0] \in [{} -> Contents]
        OBVIOUS
      <4>2. [f \in {} |-> 0] \in PartOfTree
        BY <4>1 DEF PartOfTree
      <4>3. run'[r].read = [f \in {} |-> 0] /\ run'[r].entry = run[r].entry /\ pc'[r] = "reading"
        BY <3>3 DEF Spawn
      <4> QED
        BY <4>2, <4>3
    <3>4. CASE Validate(r)
      BY <3>4 DEF Validate
    <3>5. CASE Associate(r)
      BY <3>5 DEF Associate
    <3>6. CASE Write(r)
      BY <3>6 DEF Write
    <3>7. CASE Fingerprint(r)
      <4>1. run'[r].entry = [hashed |-> run[r].hashed, inferred |-> disk, archive |-> run[r].id,
                             quiet |-> FALSE, after |-> disk]
        BY <3>7 DEF Fingerprint, AsLeft
      <4>2. run'[r].entry \in Entry
        BY <3>7, <4>1 DEF Fingerprint, Entry, Tree, Ids, Setting
      <4>3. run'[r].entry.archive = run[r].id
        BY <4>1
      <4>4. run'[r].entry # None
        BY <4>2 DEF Setting
      <4> QED
        BY <3>7, <4>3, <4>4 DEF Fingerprint
    <3>8. CASE Archive(r)
      <4>1. run[r].entry \in Entry
        BY <3>8 DEF Archive
      <4>2. run'[r].entry.archive = run[r].entry.archive
        BY <3>8, <4>1 DEF Archive, Entry
      <4>3. run'[r].entry # None
        <5> DEFINE q == r \notin disturbed
        <5>1. run'[r].entry = [run[r].entry EXCEPT !.quiet = q] /\ q \in BOOLEAN
          BY <3>8 DEF Archive
        <5> HIDE DEF q
        <5>3. run'[r].entry \in Entry
          BY <4>1, <5>1 DEF Entry
        <5> QED
          BY <5>3 DEF Setting
      <4> QED
        BY <3>8, <4>2, <4>3 DEF Archive
    <3>9. CASE GetOld(r)
      BY <3>9 DEF GetOld, Entry, Setting
    <3>10. CASE DeleteOld(r)
      BY <3>10 DEF DeleteOld
    <3>11. CASE UpsertEntry(r)
      BY <3>11 DEF UpsertEntry
    <3>12. ASSUME NEW f \in Files, Read(r, f)
           PROVE  InHand(r)'
      <4>1. DOMAIN run'[r].read = DOMAIN run[r].read \cup {f} /\ pc' = pc /\ pc[r] = "reading"
            /\ run'[r].entry = run[r].entry
        BY <3>12 DEF Read
      <4>2. run'[r].read \in PartOfTree
        <5>4. run[r].read \in PartOfTree
          BY <3>12 DEF Read
        <5>1. PICK S \in SUBSET Files : run[r].read \in [S -> Contents]
          BY <5>4 DEF PartOfTree
        <5>2. run'[r].read \in [S \cup {f} -> Contents]
          BY <3>12, <5>1 DEF Read, Tree
        <5>3. S \cup {f} \in SUBSET Files
          OBVIOUS
        <5> QED
          BY <5>2, <5>3 DEF PartOfTree
      <4> QED
        BY <4>1, <4>2
    <3> QED
      BY <3>1, <3>2, <3>3, <3>4, <3>5, <3>6, <3>7, <3>8, <3>9, <3>10, <3>11, <3>12 DEF Step
  <2> QED
    BY <1>2, <1>5, <2>1, StepChanges
<1>6. CASE Edit \/ UNCHANGED vars
  BY <1>1, <1>2, <1>6 DEF Edit, vars
<1> QED
  BY <1>3, <1>4, <1>5, <1>6, RunnerSteps DEF Next

-----------------------------------------------------------------------------
(* The names of archives.                                                  *)

(* What each part of the state is changed by.                              *)
LEMMA StepKeeps ==
  ASSUME TypeOK, NEW r \in Runners, Step(r)
  PROVE  /\ UpsertEntry(r) \/ (entries' = entries /\ cut' = cut)
         /\ Associate(r) \/ mapped' = mapped
         /\ Archive(r) \/ DeleteOld(r) \/ archives' = archives
         /\ Write(r) \/ (disk' = disk /\ out' = out /\ disturbed' = disturbed)
         /\ Get(r) \/ run'[r].got = run[r].got
         /\ Fingerprint(r) \/ Archive(r) \/ run'[r].entry = run[r].entry
         /\ pc'[r] \in {"delete", "upsert"}
              => GetOld(r) \/ (DeleteOld(r) /\ pc[r] = "delete" /\ run'[r] = run[r])
<1> USE DEF TypeOK, Hand, Set, Goto, tree, db
<1>1. CASE Get(r)
  BY <1>1 DEF Get
<1>2. CASE Explain(r)
  BY <1>2 DEF Explain
<1>3. CASE Spawn(r)
  BY <1>3 DEF Spawn
<1>4. CASE Validate(r)
  BY <1>4 DEF Validate
<1>5. CASE Associate(r)
  BY <1>5 DEF Associate
<1>6. CASE Write(r)
  BY <1>6 DEF Write
<1>7. CASE Fingerprint(r)
  BY <1>7 DEF Fingerprint
<1>8. CASE Archive(r)
  BY <1>8 DEF Archive
<1>9. CASE GetOld(r)
  BY <1>9 DEF GetOld
<1>10. CASE DeleteOld(r)
  BY <1>10 DEF DeleteOld
<1>11. CASE UpsertEntry(r)
  BY <1>11 DEF UpsertEntry
<1>12. CASE \E f \in Files : Read(r, f)
  BY <1>12 DEF Read
<1> QED
  BY <1>1, <1>2, <1>3, <1>4, <1>5, <1>6, <1>7, <1>8, <1>9, <1>10, <1>11, <1>12 DEF Step

LEMMA NamesDifferStep ==
  ASSUME Setting, TypeOK, HandsInv, NamesDiffer, [Next]_vars
  PROVE  NamesDiffer'
<1> USE DEF NamesDiffer
<1>1. ASSUME NEW r \in Runners, NEW k \in Keys, Start(r, k)
      PROVE  NamesDiffer'
  <2>1. run'[r].id = runs + 1 /\ \A q \in Runners \ {r} : run'[q] = run[q] /\ pc'[q] = pc[q]
    BY <1>1, StartHand, StartChanges
  <2>2. \A q \in Runners : pc[q] # "off" => run[q].id \in 1 .. runs
    BY DEF HandsInv, InHand
  <2> QED
    BY <2>1, <2>2 DEF TypeOK, Setting
<1>2. ASSUME NEW r \in Runners, End(r)
      PROVE  NamesDiffer'
  BY <1>2, EndChanges
<1>3. ASSUME NEW r \in Runners, Step(r)
      PROVE  NamesDiffer'
  BY <1>3, StepChanges
<1>4. CASE Edit \/ UNCHANGED vars
  BY <1>4 DEF Edit, vars
<1> QED
  BY <1>1, <1>2, <1>3, <1>4, RunnerSteps DEF Next

(* A public name stays public.                                             *)
LEMMA PublicGrows ==
  ASSUME Setting, TypeOK, [Next]_vars
  PROVE  Public \subseteq Public'
<1>1. runs \in Nat
  BY DEF TypeOK, Setting
<1>2. ASSUME NEW r \in Runners, NEW k \in Keys, Start(r, k)
      PROVE  Public \subseteq Public'
  <2>1. /\ run'[r].id = runs + 1 /\ runs' = runs + 1
        /\ \A q \in Runners \ {r} : run'[q] = run[q] /\ pc'[q] = pc[q]
    BY <1>2, StartHand, StartChanges
  <2> QED
    BY <1>1, <2>1 DEF Public
<1>3. ASSUME NEW r \in Runners, End(r)
      PROVE  Public \subseteq Public'
  <2>1. /\ pc'[r] = "off" /\ runs' = runs
        /\ \A q \in Runners \ {r} : run'[q] = run[q] /\ pc'[q] = pc[q]
    BY <1>3, EndChanges
  <2> QED
    BY <2>1 DEF Public
<1>4. ASSUME NEW r \in Runners, Step(r)
      PROVE  Public \subseteq Public'
  BY <1>4, StepChanges DEF Public
<1>5. CASE Edit \/ UNCHANGED vars
  BY <1>5 DEF Edit, vars, bounds, Public
<1> QED
  BY <1>2, <1>3, <1>4, <1>5, RunnerSteps DEF Next

(* A name in use is not public; it becomes public with its entry.          *)
LEMMA UpsertNames ==
  ASSUME Setting, TypeOK, HandsInv, NamesDiffer, NEW r \in Runners, UpsertEntry(r)
  PROVE  /\ entries' = [entries EXCEPT ![run[r].key] = run[r].entry]
         /\ run[r].entry \in Entry /\ run[r].entry # None /\ run[r].key \in Keys
         /\ run[r].entry.archive = run[r].id
         /\ run[r].id \notin Public /\ run[r].id \in Public'
<1>1. /\ entries' = [entries EXCEPT ![run[r].key] = run[r].entry]
      /\ run[r].entry # None /\ run[r].key \in Keys /\ run[r].entry.archive = run[r].id
      /\ run[r].id \in 1 .. runs
  BY DEF UpsertEntry, HandsInv, InHand
<1>2. run[r].entry \in Entry
  BY <1>1 DEF TypeOK, Hand
<1>3. run[r].id \notin Public
  BY DEF UpsertEntry, Public
<1>4. run' = run /\ runs' = runs /\ pc' = [pc EXCEPT ![r] = "map"] /\ pc[r] = "upsert"
  BY DEF UpsertEntry, Goto, bounds
<1>5. \A q \in Runners : pc'[q] \notin {"off", "map"} => run[q].id # run[r].id
  BY <1>4 DEF NamesDiffer, TypeOK
<1>6. run[r].id \in Public'
  BY <1>1, <1>4, <1>5 DEF Public
<1> QED
  BY <1>1, <1>2, <1>3, <1>6

LEMMA NamesPublicStep ==
  ASSUME Setting, TypeOK, HandsInv, NamesDiffer, NamesPublic, [Next]_vars
  PROVE  NamesPublic'
<1> DEFINE P == Public
           Q == Public'
<1>1. P \subseteq Q
  BY PublicGrows
<1>2. /\ \A k \in Keys : entries[k] # None => entries[k].archive \in P
      /\ \A q \in Runners : run[q].got # None => run[q].got.archive \in P
      /\ \A q \in Runners : pc[q] \in {"delete", "upsert"} /\ run[q].old # None
                              => run[q].old \in P
  BY DEF NamesPublic
<1> SUFFICES /\ \A k \in Keys : entries'[k] # None => entries'[k].archive \in Q
             /\ \A q \in Runners : run'[q].got # None => run'[q].got.archive \in Q
             /\ \A q \in Runners : pc'[q] \in {"delete", "upsert"} /\ run'[q].old # None
                                     => run'[q].old \in Q
  BY DEF NamesPublic
<1> HIDE DEF P
<1>3. ASSUME NEW r \in Runners, UpsertEntry(r)
      PROVE  \A k \in Keys : entries'[k] # None => entries'[k].archive \in Q
  <2>1. entries' = [entries EXCEPT ![run[r].key] = run[r].entry]
        /\ run[r].entry.archive \in Q /\ run[r].key \in Keys
    BY <1>3, UpsertNames
  <2> HIDE DEF Q
  <2> QED
    BY <1>1, <1>2, <2>1 DEF TypeOK
<1> HIDE DEF Q
<1>4. ASSUME NEW r \in Runners, NEW k \in Keys, Start(r, k)
      PROVE  /\ \A l \in Keys : entries'[l] # None => entries'[l].archive \in Q
             /\ \A q \in Runners : run'[q].got # None => run'[q].got.archive \in Q
             /\ \A q \in Runners : pc'[q] \in {"delete", "upsert"} /\ run'[q].old # None
                                     => run'[q].old \in Q
  <2>1. /\ run'[r].got = None /\ pc'[r] = "get" /\ entries' = entries
        /\ \A q \in Runners \ {r} : run'[q] = run[q] /\ pc'[q] = pc[q]
    BY <1>4, StartHand, StartChanges DEF Start, db
  <2> QED
    BY <1>1, <1>2, <2>1
<1>5. ASSUME NEW r \in Runners, End(r)
      PROVE  /\ \A k \in Keys : entries'[k] # None => entries'[k].archive \in Q
             /\ \A q \in Runners : run'[q].got # None => run'[q].got.archive \in Q
             /\ \A q \in Runners : pc'[q] \in {"delete", "upsert"} /\ run'[q].old # None
                                     => run'[q].old \in Q
  <2>1. /\ run'[r].got = None /\ pc'[r] = "off" /\ entries' = entries
        /\ \A q \in Runners \ {r} : run'[q] = run[q] /\ pc'[q] = pc[q]
    BY <1>5, EndChanges DEF Idle
  <2> QED
    BY <1>1, <1>2, <2>1
<1>6. ASSUME NEW r \in Runners, Step(r)
      PROVE  /\ \A k \in Keys : entries'[k] # None => entries'[k].archive \in Q
             /\ \A q \in Runners : run'[q].got # None => run'[q].got.archive \in Q
             /\ \A q \in Runners : pc'[q] \in {"delete", "upsert"} /\ run'[q].old # None
                                     => run'[q].old \in Q
  <2>1. \A k \in Keys : entries'[k] # None => entries'[k].archive \in Q
    BY <1>1, <1>2, <1>3, <1>6, StepKeeps
  <2>2. run'[r].got # None => run'[r].got.archive \in Q
    <3>1. CASE Get(r)
      <4>1. run'[r].got = entries[run[r].key] /\ run[r].key \in Keys
        BY <3>1 DEF Get, Set, TypeOK, Hand, HandsInv, InHand
      <4> QED
        BY <1>1, <1>2, <4>1
    <3>2. CASE run'[r].got = run[r].got
      BY <1>1, <1>2, <3>2
    <3> QED
      BY <1>6, <3>1, <3>2, StepKeeps
  <2>3. pc'[r] \in {"delete", "upsert"} /\ run'[r].old # None => run'[r].old \in Q
    <3>1. CASE GetOld(r)
      <4>1. /\ run[r].key \in Keys
            /\ run'[r].old = IF entries[run[r].key] = None THEN None
                             ELSE entries[run[r].key].archive
        BY <3>1 DEF GetOld, Set, TypeOK, Hand, HandsInv, InHand
      <4> QED
        BY <1>1, <1>2, <4>1
    <3>2. CASE pc[r] = "delete" /\ run'[r] = run[r]
      BY <1>1, <1>2, <3>2
    <3> QED
      BY <1>6, <3>1, <3>2, StepKeeps
  <2>4. \A q \in Runners \ {r} : run'[q] = run[q] /\ pc'[q] = pc[q]
    BY <1>6, StepChanges
  <2> QED
    BY <1>1, <1>2, <2>1, <2>2, <2>3, <2>4
<1>7. CASE Edit \/ UNCHANGED vars
  BY <1>1, <1>2, <1>7 DEF Edit, vars, db
<1> QED
  BY <1>4, <1>5, <1>6, <1>7, RunnerSteps DEF Next

LEMMA OneKeyStep ==
  ASSUME Setting, TypeOK, HandsInv, NamesDiffer, NamesPublic, OneKey, [Next]_vars
  PROVE  OneKey'
<1> USE DEF OneKey
<1>1. \A k \in Keys : entries[k] # None => entries[k].archive \in Ids /\ entries[k].archive \in Public
  BY DEF TypeOK, Entry, NamesPublic
<1>2. None \notin Ids
  BY DEF Setting
<1>3. ASSUME NEW r \in Runners, NEW k \in Keys, Start(r, k)
      PROVE  OneKey'
  <2>1. /\ pc'[r] = "get" /\ entries' = entries
        /\ \A q \in Runners \ {r} : run'[q] = run[q] /\ pc'[q] = pc[q]
    BY <1>3, StartChanges DEF Start, db
  <2> QED
    BY <2>1
<1>4. ASSUME NEW r \in Runners, End(r)
      PROVE  OneKey'
  <2>1. /\ pc'[r] = "off" /\ entries' = entries
        /\ \A q \in Runners \ {r} : run'[q] = run[q] /\ pc'[q] = pc[q]
    BY <1>4, EndChanges
  <2> QED
    BY <2>1
<1>5. ASSUME NEW r \in Runners, UpsertEntry(r)
      PROVE  OneKey'
  <2>1. /\ entries' = [entries EXCEPT ![run[r].key] = run[r].entry]
        /\ run[r].key \in Keys /\ run[r].entry.archive \notin Public
        /\ run[r].entry.archive \in Ids /\ run[r].entry # None
    BY <1>5, UpsertNames DEF Entry
  <2>2. /\ \A k \in Keys \ {run[r].key} : entries'[k] = entries[k]
        /\ entries'[run[r].key] = run[r].entry
    BY <2>1 DEF TypeOK
  <2>3. run' = run /\ \A q \in Runners : pc'[q] \in {"delete", "upsert"} => pc[q] \in {"delete", "upsert"}
    BY <1>5 DEF UpsertEntry, Goto, TypeOK
  <2>4. \A q \in Runners : pc[q] \in {"delete", "upsert"} => run[q].old = None \/ run[q].old \in Public
    BY DEF NamesPublic
  <2>5. \A k, l \in Keys : k # l /\ entries'[k] # None /\ entries'[l] # None
                             => entries'[k].archive # entries'[l].archive
    BY <1>1, <2>1, <2>2
  <2>6. \A q \in Runners, k \in Keys :
          pc'[q] \in {"delete", "upsert"} /\ k # run'[q].key /\ entries'[k] # None
            => entries'[k].archive # run'[q].old
    BY <1>1, <1>2, <2>1, <2>2, <2>3, <2>4
  <2> QED
    BY <2>5, <2>6
<1>6. ASSUME NEW r \in Runners, Step(r), ~UpsertEntry(r)
      PROVE  OneKey'
  <2>1. /\ entries' = entries /\ run'[r].key = run[r].key
        /\ \A q \in Runners \ {r} : run'[q] = run[q] /\ pc'[q] = pc[q]
    BY <1>6, StepKeeps, StepChanges
  <2>2. ASSUME NEW k \in Keys, pc'[r] \in {"delete", "upsert"}, k # run'[r].key, entries'[k] # None
        PROVE  entries'[k].archive # run'[r].old
    <3>1. CASE GetOld(r)
      <4>1. /\ run[r].key \in Keys
            /\ run'[r].old = IF entries[run[r].key] = None THEN None
                             ELSE entries[run[r].key].archive
        BY <3>1 DEF GetOld, Set, TypeOK, Hand, HandsInv, InHand
      <4> QED
        BY <1>1, <1>2, <2>1, <2>2, <4>1
    <3>2. CASE pc[r] = "delete" /\ run'[r] = run[r]
      BY <2>1, <2>2, <3>2
    <3> QED
      BY <1>6, <2>2, <3>1, <3>2, StepKeeps
  <2> QED
    BY <2>1, <2>2
<1>7. CASE Edit \/ UNCHANGED vars
  BY <1>7 DEF Edit, vars, db
<1> QED
  BY <1>3, <1>4, <1>5, <1>6, <1>7, RunnerSteps DEF Next

-----------------------------------------------------------------------------
(* What archives and rows are there.                                       *)

(* A removed archive is the one its entry is replaced for.                 *)
LEMMA DeleteGone ==
  ASSUME Setting, TypeOK, HandsInv, NamesPublic, NEW r \in Runners, DeleteOld(r)
  PROVE  /\ \A i \in Ids : archives'[i] = None => archives[i] = None \/ i = run[r].old
         /\ \A i \in Ids : archives'[i] # None => archives'[i] = archives[i]
         /\ run[r].old = None \/ run[r].old \in Public
         /\ pc'[r] = "upsert" /\ run' = run
BY DEF DeleteOld, TypeOK, NamesPublic, Goto

LEMMA RowsStep ==
  ASSUME Setting, TypeOK, HandsInv, NamesDiffer, NamesPublic, OneKey, RowsInv, [Next]_vars
  PROVE  RowsInv'
<1> USE DEF RowsInv, RowsBacked, EntryHasArchive, MappingBacked
<1>1. /\ None \notin Ids /\ None \notin Stored /\ None \notin Entry
      /\ \A k \in Keys : entries[k] # None => entries[k].archive \in Ids
      /\ \A q \in Runners : pc[q] # "off" => run[q].id \in Ids /\ run[q].key \in Keys
  <2>1. \A q \in Runners : pc[q] # "off" => run[q].id \in 1 .. runs /\ run[q].key \in Keys
    BY DEF HandsInv, InHand
  <2>2. \A k \in Keys : entries[k] # None => entries[k].archive \in Ids
    BY DEF TypeOK, Entry
  <2> QED
    BY <2>1, <2>2 DEF Setting, TypeOK, Ids
<1>2. ASSUME NEW r \in Runners, NEW k \in Keys, Start(r, k)
      PROVE  RowsInv'
  <2>1. /\ pc[r] = "off" /\ pc'[r] = "get"
        /\ entries' = entries /\ archives' = archives /\ mapped' = mapped /\ cut' = cut
        /\ \A q \in Runners \ {r} : run'[q] = run[q] /\ pc'[q] = pc[q]
    BY <1>2, StartChanges DEF Start, db
  <2> QED
    BY <2>1
<1>3. ASSUME NEW r \in Runners, End(r)
      PROVE  RowsInv'
  <2>1. /\ pc'[r] = "off" /\ entries' = entries /\ archives' = archives
        /\ \A q \in Runners \ {r} : run'[q] = run[q] /\ pc'[q] = pc[q]
    BY <1>3, EndChanges
  <2>2. /\ cut \subseteq cut'
        /\ pc[r] = "upsert" => run[r].key \in cut'
    BY <1>3 DEF End, Restore, Refuse, UpsertMapping, Crash, db
  <2>3. mapped' # None => entries[mapped'] # None
    BY <1>3 DEF End, Restore, Refuse, UpsertMapping, Crash, db
  <2> QED
    BY <2>1, <2>2, <2>3
<1>4. ASSUME NEW r \in Runners, UpsertEntry(r)
      PROVE  RowsInv'
  <2>1. /\ entries' = [entries EXCEPT ![run[r].key] = run[r].entry]
        /\ run[r].key \in Keys /\ run[r].entry.archive = run[r].id /\ run[r].entry # None
    BY <1>4, UpsertNames
  <2>2. /\ run' = run /\ archives' = archives /\ mapped' = mapped
        /\ cut' = cut \ {run[r].key} /\ pc[r] = "upsert" /\ pc'[r] = "map"
        /\ \A q \in Runners \ {r} : pc'[q] = pc[q]
    BY <1>4 DEF UpsertEntry, Goto, TypeOK
  <2>3. /\ \A k \in Keys \ {run[r].key} : entries'[k] = entries[k]
        /\ entries'[run[r].key] = run[r].entry
    BY <2>1 DEF TypeOK
  <2>4. EntryHasArchive'
    BY <2>1, <2>2, <2>3
  <2>5. \A q \in Runners : pc'[q] \in {"validate", "associate", "restore", "map"}
                             => entries'[run'[q].key] # None
    BY <1>1, <2>1, <2>2, <2>3
  <2>6. MappingBacked'
    BY <2>1, <2>2, <2>3 DEF TypeOK
  <2> QED
    BY <2>2, <2>4, <2>5, <2>6
<1>5. ASSUME NEW r \in Runners, DeleteOld(r)
      PROVE  RowsInv'
  <2>1. /\ entries' = entries /\ mapped' = mapped /\ cut' = cut /\ run' = run
        /\ pc[r] = "delete" /\ pc'[r] = "upsert" /\ \A q \in Runners \ {r} : pc'[q] = pc[q]
    BY <1>5 DEF DeleteOld, Goto, TypeOK
  <2>2. \A q \in Runners : pc[q] \in {"getold", "delete", "upsert"} => run[q].id # run[r].old
    BY <1>1, <1>5, DeleteGone DEF Public
  <2>3. \A q \in Runners : pc'[q] \in {"getold", "delete", "upsert"} => archives'[run'[q].id] # None
    BY <1>1, <1>5, <2>1, <2>2, DeleteGone
  <2>4. EntryHasArchive'
    <3> SUFFICES ASSUME NEW k \in Keys, entries[k] # None, archives'[entries[k].archive] = None
                 PROVE  \/ k \in cut
                        \/ \E q \in Runners : pc'[q] = "upsert" /\ run[q].key = k
                                              /\ run[q].old = entries[k].archive
      BY <2>1
    <3>1. CASE archives[entries[k].archive] = None
      BY <2>1, <3>1
    <3>2. CASE entries[k].archive = run[r].old
      BY <2>1, <3>2 DEF OneKey
    <3> QED
      BY <1>1, <1>5, <3>1, <3>2, DeleteGone
  <2> QED
    BY <2>1, <2>3, <2>4
<1>6. ASSUME NEW r \in Runners, Archive(r)
      PROVE  RowsInv'
  <2>1. /\ entries' = entries /\ mapped' = mapped /\ cut' = cut
        /\ pc[r] = "archive" /\ pc'[r] = "getold"
        /\ run'[r].id = run[r].id /\ \A q \in Runners \ {r} : pc'[q] = pc[q] /\ run'[q] = run[q]
    BY <1>6, StepChanges DEF Archive, Goto, TypeOK, Step
  <2>2. PICK a \in Stored : archives' = [archives EXCEPT ![run[r].id] = a]
    <3>1. [out |-> out, files |-> [f \in Written |-> disk[f]]] \in Stored
      BY DEF TypeOK, Stored, Tree, Setting
    <3> QED
      BY <1>6, <3>1 DEF Archive
  <2>3. \A i \in Ids : archives'[i] = None => archives[i] = None
    BY <1>1, <2>1, <2>2 DEF TypeOK
  <2>4. archives'[run[r].id] # None
    BY <1>1, <2>1, <2>2 DEF TypeOK
  <2> QED
    BY <1>1, <2>1, <2>3, <2>4
<1>7. ASSUME NEW r \in Runners, Step(r), ~UpsertEntry(r), ~DeleteOld(r), ~Archive(r)
      PROVE  RowsInv'
  <2>1. /\ entries' = entries /\ archives' = archives /\ cut' = cut
        /\ run'[r].key = run[r].key /\ run'[r].id = run[r].id
        /\ \A q \in Runners \ {r} : run'[q] = run[q] /\ pc'[q] = pc[q]
    BY <1>7, StepKeeps, StepChanges
  <2>2. /\ pc[r] # "upsert"
        /\ pc'[r] \in {"getold", "delete", "upsert"} => pc[r] \in {"getold", "delete", "upsert"}
        /\ pc'[r] \in {"validate", "associate", "restore", "map"} => entries[run[r].key] # None
        /\ mapped' # None => entries[mapped'] # None
    <3> USE DEF Goto, TypeOK, tree, db
    <3>1. CASE Get(r)
      BY <3>1 DEF Get
    <3>2. CASE Explain(r)
      BY <3>2 DEF Explain
    <3>3. CASE Spawn(r)
      BY <3>3 DEF Spawn
    <3>4. CASE Validate(r)
      BY <3>4 DEF Validate
    <3>5. CASE Associate(r)
      BY <3>5 DEF Associate
    <3>6. CASE Write(r)
      BY <3>6 DEF Write
    <3>7. CASE Fingerprint(r)
      BY <3>7 DEF Fingerprint
    <3>8. CASE GetOld(r)
      BY <3>8 DEF GetOld
    <3>9. CASE \E f \in Files : Read(r, f)
      BY <3>9 DEF Read
    <3> QED
      BY <1>7, <3>1, <3>2, <3>3, <3>4, <3>5, <3>6, <3>7, <3>8, <3>9 DEF Step
  <2> QED
    BY <2>1, <2>2
<1>8. CASE Edit \/ UNCHANGED vars
  BY <1>8 DEF Edit, vars, db
<1> QED
  BY <1>2, <1>3, <1>4, <1>5, <1>6, <1>7, <1>8, RunnerSteps DEF Next

-----------------------------------------------------------------------------
(* What entries say.                                                       *)

LEMMA RemovedTrue ==
  ASSUME NEW e, NEW a, NEW b \in {a, None}, TrueOf(e, a)
  PROVE  TrueOf(e, b)
BY DEF TrueOf

LEMMA EntriesStep ==
  ASSUME Setting, TypeOK, HandsInv, NamesDiffer, NamesPublic, EntriesTrue, CalmInv, [Next]_vars
  PROVE  EntriesTrue'
<1>1. /\ \A k \in Keys : entries[k] # None => TrueOf(entries[k], archives[entries[k].archive])
      /\ \A q \in Runners : run[q].got # None => TrueOf(run[q].got, archives[run[q].got.archive])
      /\ \A q \in Runners : run[q].entry # None
                              => TrueOf(run[q].entry, archives[run[q].entry.archive])
  BY DEF EntriesTrue
<1>2. /\ \A k \in Keys : entries[k] # None => entries[k] \in Entry
      /\ \A q \in Runners : /\ run[q].got # None => run[q].got \in Entry
                            /\ run[q].entry # None => run[q].entry \in Entry
      /\ \A e \in Entry : e.archive \in Ids
  BY DEF TypeOK, Hand, Entry
<1>3. ASSUME \A i \in Ids : archives'[i] \in {archives[i], None}
      PROVE  \A e \in Entry : TrueOf(e, archives[e.archive]) => TrueOf(e, archives'[e.archive])
  BY <1>2, <1>3, RemovedTrue
<1>4. ASSUME NEW r \in Runners, NEW k \in Keys, Start(r, k)
      PROVE  EntriesTrue'
  <2>1. /\ run'[r].got = None /\ run'[r].entry = None
        /\ entries' = entries /\ archives' = archives
        /\ \A q \in Runners \ {r} : run'[q] = run[q]
    BY <1>4, StartHand, StartChanges DEF Start, db
  <2> QED
    BY <1>1, <2>1 DEF EntriesTrue, TrueOf
<1>5. ASSUME NEW r \in Runners, End(r)
      PROVE  EntriesTrue'
  <2>1. /\ run'[r].got = None /\ run'[r].entry = None
        /\ entries' = entries /\ archives' = archives
        /\ \A q \in Runners \ {r} : run'[q] = run[q]
    BY <1>5, EndChanges DEF Idle
  <2> QED
    BY <1>1, <2>1 DEF EntriesTrue, TrueOf
<1>6. ASSUME NEW r \in Runners, Archive(r)
      PROVE  EntriesTrue'
  <2> DEFINE q == r \notin disturbed
  <2>1. /\ entries' = entries /\ pc[r] = "archive"
        /\ run'[r].entry = [run[r].entry EXCEPT !.quiet = q]
        /\ run'[r].got = run[r].got
        /\ \A p \in Runners \ {r} : run'[p] = run[p]
    BY <1>6 DEF Archive, TypeOK, Hand
  <2>2. /\ run[r].id \in Ids /\ run[r].id \notin Public
        /\ run[r].entry # None /\ run[r].entry.archive = run[r].id
        /\ \A p \in Runners \ {r} : run[p].entry # None => run[p].entry.archive # run[r].id
    BY <2>1 DEF HandsInv, InHand, Public, NamesDiffer, TypeOK, Hand, Setting, Ids
  <2>3. \A i \in Ids : i # run[r].id => archives'[i] = archives[i]
    BY <1>6 DEF Archive, TypeOK
  <2>4. archives'[run[r].id].out = out
    BY <1>6, <2>2 DEF Archive, TypeOK
  <2>5. \A k \in Keys : entries'[k] # None => TrueOf(entries'[k], archives'[entries'[k].archive])
    BY <1>1, <1>2, <2>1, <2>2, <2>3 DEF NamesPublic
  <2>6. \A p \in Runners : run'[p].got # None
                             => TrueOf(run'[p].got, archives'[run'[p].got.archive])
    BY <1>1, <1>2, <2>1, <2>2, <2>3 DEF NamesPublic
  <2>7. TrueOf(run'[r].entry, archives'[run'[r].entry.archive])
    <3>1. q => /\ OutputOf(r)
               /\ run[r].entry.hashed = run[r].hashed /\ run[r].entry.inferred = disk
      BY <2>1 DEF CalmInv, Knows
    <3>2. run[r].entry.after = run[r].entry.inferred
      BY <1>1, <2>2 DEF TrueOf
    <3>3. run[r].entry \in Entry /\ q \in BOOLEAN
      BY <1>2, <2>2
    <3> HIDE DEF q
    <3>4. /\ run'[r].entry.quiet = q /\ run'[r].entry.archive = run[r].id
          /\ run'[r].entry.hashed = run[r].entry.hashed
          /\ run'[r].entry.inferred = run[r].entry.inferred
          /\ run'[r].entry.after = run[r].entry.after
      BY <2>1, <2>2, <3>3 DEF Entry
    <3> QED
      BY <2>4, <3>1, <3>2, <3>4 DEF TrueOf, OutputOf
  <2>8. \A p \in Runners \ {r} : run'[p].entry # None
                                   => TrueOf(run'[p].entry, archives'[run'[p].entry.archive])
    BY <1>1, <1>2, <2>1, <2>2, <2>3
  <2>9. \A p \in Runners : run'[p].entry # None
                             => TrueOf(run'[p].entry, archives'[run'[p].entry.archive])
    BY <2>7, <2>8
  <2> QED
    BY <2>5, <2>6, <2>9, Zenon DEF EntriesTrue, TrueOf
<1>7. ASSUME NEW r \in Runners, Step(r), ~Archive(r)
      PROVE  EntriesTrue'
  <2>1. \A i \in Ids : archives'[i] \in {archives[i], None}
    BY <1>7, StepKeeps DEF DeleteOld, TypeOK
  <2>2. \A k \in Keys : entries'[k] \in {entries[k], run[r].entry}
    <3>1. CASE UpsertEntry(r)
      BY <3>1 DEF UpsertEntry, TypeOK
    <3> QED
      BY <1>7, <3>1, StepKeeps
  <2>3. run'[r].got = run[r].got \/ \E k \in Keys : run'[r].got = entries[k]
    <3>1. CASE Get(r)
      BY <3>1 DEF Get, Set, TypeOK, Hand, HandsInv, InHand
    <3> QED
      BY <1>7, <3>1, StepKeeps
  <2>4. \A p \in Runners \ {r} : run'[p] = run[p]
    BY <1>7, StepChanges
  <2>5. run'[r].entry # None => TrueOf(run'[r].entry, archives'[run'[r].entry.archive])
    <3>1. CASE Fingerprint(r)
      <4>1. run'[r].entry = [hashed |-> run[r].hashed, inferred |-> disk, archive |-> run[r].id,
                             quiet |-> FALSE, after |-> disk]
        BY <3>1 DEF Fingerprint, AsLeft, Set, TypeOK, Hand
      <4>2. /\ run'[r].entry.quiet = FALSE
            /\ run'[r].entry.after = disk /\ run'[r].entry.inferred = disk
        BY <4>1
      <4> QED
        BY <4>2 DEF TrueOf
    <3>2. CASE run'[r].entry = run[r].entry
      BY <1>1, <1>2, <1>3, <2>1, <3>2
    <3> QED
      BY <1>7, <3>1, <3>2, StepKeeps
  <2>6. \A k \in Keys : entries'[k] # None => TrueOf(entries'[k], archives'[entries'[k].archive])
    BY <1>1, <1>2, <1>3, <2>1, <2>2
  <2>7. \A p \in Runners : run'[p].got # None
                             => TrueOf(run'[p].got, archives'[run'[p].got.archive])
    BY <1>1, <1>2, <1>3, <2>1, <2>3, <2>4
  <2>8. \A p \in Runners \ {r} : run'[p].entry # None
                                   => TrueOf(run'[p].entry, archives'[run'[p].entry.archive])
    BY <1>1, <1>2, <1>3, <2>1, <2>4
  <2> QED
    BY <2>5, <2>6, <2>7, <2>8 DEF EntriesTrue, TrueOf
<1>8. CASE Edit \/ UNCHANGED vars
  BY <1>1, <1>8 DEF Edit, vars, db, EntriesTrue, TrueOf
<1> QED
  BY <1>4, <1>5, <1>6, <1>7, <1>8, RunnerSteps DEF Next

-----------------------------------------------------------------------------
(* What an undisturbed runner knows.                                       *)

(* What is known stays known while the tree is as it was.                  *)
LEMMA StillKnown ==
  ASSUME NEW q \in Runners, Knows(q), run'[q] = run[q], pc'[q] = pc[q], disk' = disk, out' = out
  PROVE  Knows(q)'
BY DEF Knows, OutputOf, Valid, InferredBy

LEMMA OffKnows ==
  ASSUME NEW q \in Runners, pc'[q] = "off"
  PROVE  Knows(q)'
BY DEF Knows

(* Whoever changes the tree, the others are disturbed.                     *)
LEMMA OthersKnow ==
  ASSUME TypeOK, CalmInv, NEW r \in Runners, Disturb(r),
         \A q \in Runners \ {r} : run'[q] = run[q] /\ pc'[q] = pc[q]
  PROVE  \A q \in Runners \ {r} : q \notin disturbed' => Knows(q)'
<1> SUFFICES ASSUME NEW q \in Runners \ {r}, q \notin disturbed'
             PROVE  Knows(q)'
  OBVIOUS
<1>1. q \notin disturbed
  BY DEF Disturb
<1>2. CASE disk' = disk /\ out' = out
  BY <1>1, <1>2, StillKnown DEF CalmInv
<1>3. CASE ~(disk' = disk /\ out' = out)
  <2>1. pc'[q] = "off"
    BY <1>3 DEF Disturb
  <2> QED
    BY <2>1, OffKnows
<1> QED
  BY <1>2, <1>3

LEMMA CalmStep ==
  ASSUME Setting, TypeOK, HandsInv, CalmInv, [Next]_vars
  PROVE  CalmInv'
<1>1. ASSUME NEW r \in Runners, disk' = disk, out' = out, disturbed \ {r} \subseteq disturbed',
             \A q \in Runners \ {r} : run'[q] = run[q] /\ pc'[q] = pc[q],
             r \notin disturbed' => Knows(r)'
      PROVE  CalmInv'
  <2> SUFFICES ASSUME NEW q \in Runners \ {r}, q \notin disturbed'
               PROVE  Knows(q)'
    BY <1>1 DEF CalmInv
  <2> QED
    BY <1>1, StillKnown DEF CalmInv
<1>2. ASSUME NEW r \in Runners, NEW k \in Keys, Start(r, k)
      PROVE  CalmInv'
  <2>1. /\ run'[r].hashed = [f \in Globbed |-> disk[f]] /\ pc'[r] = "get"
        /\ \A q \in Runners \ {r} : run'[q] = run[q] /\ pc'[q] = pc[q]
    BY <1>2, StartHand, StartChanges
  <2>2. disk' = disk /\ out' = out /\ disturbed' = disturbed \ {r}
    BY <1>2 DEF Start
  <2>3. Knows(r)'
    BY <2>1, <2>2 DEF Knows
  <2> QED
    BY <1>1, <2>1, <2>2, <2>3
<1>3. ASSUME NEW r \in Runners, End(r)
      PROVE  CalmInv'
  <2>1. pc'[r] = "off" /\ \A q \in Runners \ {r} : run'[q] = run[q] /\ pc'[q] = pc[q]
    BY <1>3, EndChanges
  <2>2. Knows(r)'
    BY <2>1, OffKnows
  <2>3. Disturb(r)
    BY <1>3 DEF End, Restore, Refuse, UpsertMapping, Crash, Disturb, tree
  <2>4. \A q \in Runners \ {r} : q \notin disturbed' => Knows(q)'
    BY <2>1, <2>3, OthersKnow
  <2> QED
    BY <2>2, <2>4 DEF CalmInv
<1>4. ASSUME NEW r \in Runners, Write(r)
      PROVE  CalmInv'
  <2>1. /\ pc[r] = "reading" /\ pc'[r] = "exited" /\ run' = run
        /\ out' = run[r].read /\ DOMAIN run[r].read = Files
        /\ disk' = [f \in Files |-> IF f \in Written THEN Own ELSE disk[f]]
        /\ \A q \in Runners \ {r} : run'[q] = run[q] /\ pc'[q] = pc[q]
    BY <1>4 DEF Write, Goto, TypeOK
  <2>2. run[r].read \in Tree
    <3>1. run[r].read \in PartOfTree
      BY <2>1 DEF HandsInv, InHand
    <3>2. PICK S \in SUBSET Files : run[r].read \in [S -> Contents]
      BY <3>1 DEF PartOfTree
    <3>3. S = Files
      BY <2>1, <3>2
    <3> QED
      BY <3>2, <3>3 DEF Tree
  <2>3. r \notin disturbed' => Knows(r)'
    <3> SUFFICES ASSUME r \notin disturbed
                 PROVE  Knows(r)'
      BY <1>4 DEF Write, Disturb
    <3>1. /\ \A f \in Globbed : disk[f] = run[r].hashed[f]
          /\ \A f \in Files : run[r].read[f] = disk[f]
      BY <2>1 DEF CalmInv, Knows
    <3>2. run[r].read # None
      BY <2>2 DEF Setting
    <3> QED
      BY <2>1, <3>1, <3>2 DEF Knows, OutputOf, Setting
  <2>4. \A q \in Runners \ {r} : q \notin disturbed' => Knows(q)'
    BY <1>4, <2>1, OthersKnow DEF Write
  <2> QED
    BY <2>3, <2>4 DEF CalmInv
<1>5. ASSUME NEW r \in Runners, Step(r), ~Write(r)
      PROVE  CalmInv'
  <2>1. /\ disk' = disk /\ out' = out /\ disturbed' = disturbed
        /\ run'[r].hashed = run[r].hashed
        /\ \A q \in Runners \ {r} : run'[q] = run[q] /\ pc'[q] = pc[q]
    BY <1>5, StepKeeps, StepChanges
  <2>2. ASSUME r \notin disturbed
        PROVE  Knows(r)'
    <3>1. Knows(r)
      BY <2>2 DEF CalmInv
    <3> USE DEF Knows, OutputOf, Goto, Set, TypeOK, Hand, tree
    <3>2. CASE Get(r)
      BY <2>1, <3>1, <3>2 DEF Get, Valid, InferredBy
    <3>3. CASE Explain(r)
      BY <2>1, <3>1, <3>3 DEF Explain
    <3>4. CASE Spawn(r)
      BY <2>1, <3>1, <3>4 DEF Spawn
    <3>5. CASE Validate(r)
      BY <2>1, <3>1, <3>5 DEF Validate, Valid, InferredBy
    <3>6. CASE Associate(r)
      BY <2>1, <3>1, <3>6 DEF Associate, Valid, InferredBy
    <3>7. CASE Fingerprint(r)
      BY <2>1, <3>1, <3>7 DEF Fingerprint, AsLeft
    <3>8. CASE Archive(r)
      BY <2>1, <3>1, <3>8 DEF Archive
    <3>9. CASE GetOld(r)
      BY <2>1, <3>1, <3>9 DEF GetOld
    <3>10. CASE DeleteOld(r)
      BY <2>1, <3>1, <3>10 DEF DeleteOld
    <3>11. CASE UpsertEntry(r)
      BY <2>1, <3>1, <3>11 DEF UpsertEntry
    <3>12. CASE \E f \in Files : Read(r, f)
      BY <2>1, <3>1, <3>12 DEF Read
    <3> QED
      BY <1>5, <3>2, <3>3, <3>4, <3>5, <3>6, <3>7, <3>8, <3>9, <3>10, <3>11, <3>12 DEF Step
  <2> QED
    BY <1>1, <2>1, <2>2
<1>6. CASE Edit
  <2> SUFFICES ASSUME NEW q \in Runners, q \notin disturbed'
               PROVE  Knows(q)'
    BY DEF CalmInv
  <2>1. pc'[q] = "off"
    BY <1>6 DEF Edit
  <2> QED
    BY <2>1, OffKnows
<1>7. CASE UNCHANGED vars
  BY <1>7, StillKnown DEF vars, tree, CalmInv
<1> QED
  BY <1>2, <1>3, <1>4, <1>5, <1>6, <1>7, RunnerSteps DEF Next

-----------------------------------------------------------------------------
(* What the cache promises.                                                *)

LEMMA CacheStarts ==
  ASSUME Setting, Init
  PROVE  CacheInv
<1> USE DEF Init
<1>1. /\ \A r \in Runners : /\ pc[r] = "off" /\ run[r] = Idle
                            /\ run[r].got = None /\ run[r].entry = None
      /\ \A k \in Keys : entries[k] = None
  BY DEF Idle
<1>2. TypeOK
  <2>1. 1 \in Contents
    BY DEF Contents, Own, Setting
  <2>2. Idle \in Hand
    BY DEF Idle, Hand
  <2> QED
    BY <2>1, <2>2 DEF TypeOK, Tree, Labels, Setting
<1>3. HandsInv /\ NamesDiffer /\ NamesPublic /\ OneKey /\ EntriesTrue /\ CalmInv
  BY <1>1 DEF HandsInv, InHand, NamesDiffer, NamesPublic, OneKey, EntriesTrue, CalmInv, Knows
<1>4. RowsInv
  BY <1>1 DEF RowsInv, RowsBacked, EntryHasArchive, MappingBacked
<1> QED
  BY <1>2, <1>3, <1>4 DEF CacheInv

(* What runners have in hand agrees with the rows, the archives and the    *)
(* tree at each of their steps, however many runners meet in one cache,    *)
(* edit the tree and are killed (mod.rs, cache_update.rs).                 *)
THEOREM CacheInvariant == Spec => []CacheInv
<1>1. Init => CacheInv
  BY CacheStarts, CacheAssumption
<1>2. CacheInv /\ [Next]_vars => CacheInv'
  BY TypeStep, HandsStep, NamesDifferStep, NamesPublicStep, OneKeyStep, RowsStep, EntriesStep,
     CalmStep, CacheAssumption DEF CacheInv
<1> QED
  BY <1>1, <1>2, PTL DEF Spec

(* A hit on the entry of an undisturbed run restores the output of exactly *)
(* the inputs that are there (cache_update.rs: never "hitting a stale      *)
(* entry").                                                                *)
THEOREM HitsAreFresh == Spec => []FreshHits
<1>1. CacheInv => FreshHits
  <2> SUFFICES ASSUME CacheInv, NEW r \in Runners,
                      pc[r] = "restore", r \notin disturbed, run[r].got.quiet
               PROVE  Fresh(r)
    BY DEF FreshHits
  <2> DEFINE e == run[r].got
             a == archives[e.archive]
  <2>1. e # None /\ TrueOf(e, a)
    BY DEF CacheInv, HandsInv, InHand, EntriesTrue
  <2>2. Valid(e, run[r].hashed) /\ \A f \in Globbed : disk[f] = run[r].hashed[f]
    BY DEF CacheInv, CalmInv, Knows
  <2> HIDE DEF e
  <2>3. ASSUME a # None, NEW f \in Sources
        PROVE  a.out[f] = disk[f]
    <3>1. CASE f \in Globbed
      BY <2>1, <2>2, <2>3, <3>1 DEF TrueOf, Valid, e
    <3>2. CASE f \in Files \ (Globbed \cup Written)
      BY <2>1, <2>2, <2>3, <3>2 DEF TrueOf, Valid, InferredBy, e
    <3> QED
      BY <3>1, <3>2 DEF Sources
  <2> QED
    BY <2>1, <2>3 DEF Fresh, TrueOf, e
<1> QED
  BY <1>1, CacheInvariant, PTL

(* The run after an undisturbed one hits, also on a tree without what the  *)
(* task writes (rebuildable.rs).                                           *)
THEOREM RunsRepeat == Spec => []RepeatedHits
<1>1. CacheInv => RepeatedHits
  <2> SUFFICES ASSUME CacheInv, NEW r \in Runners, pc[r] = "validate", r \notin disturbed,
                      run[r].got.quiet, AsRunLeftIt(run[r].got),
                      \A f \in Globbed : run[r].got.hashed[f] = run[r].got.after[f]
               PROVE  Valid(run[r].got, run[r].hashed)
    BY DEF RepeatedHits
  <2> DEFINE e == run[r].got
             h == run[r].hashed
  <2>1. /\ e \in Entry /\ h \in [Globbed -> Contents] /\ e.after = e.inferred
        /\ \A f \in Globbed : disk[f] = h[f]
    BY DEF CacheInv, TypeOK, Hand, HandsInv, InHand, EntriesTrue, TrueOf, CalmInv, Knows
  <2>2. \A f \in Globbed : h[f] = e.hashed[f]
    BY <2>1, CacheAssumption DEF AsRunLeftIt, Setting
  <2>3. h = e.hashed
    BY <2>1, <2>2 DEF Entry
  <2>4. \A f \in Files : disk[f] = e.inferred[f] \/ (f \in Written /\ disk[f] = Missing)
    BY <2>1 DEF AsRunLeftIt
  <2> QED
    BY <2>3, <2>4 DEF Valid, InferredBy
<1> QED
  BY <1>1, CacheInvariant, PTL

(* An entry's archive exists except while that entry is being replaced, or *)
(* after a runner died doing so, and the key a task is mapped to has an    *)
(* entry.                                                                  *)
THEOREM RowsAreBacked == Spec => []RowsBacked
<1>1. CacheInv => RowsBacked
  BY DEF CacheInv, RowsInv
<1> QED
  BY <1>1, CacheInvariant, PTL

-----------------------------------------------------------------------------
(* CacheFolder.                                                            *)

(* What the proofs need of the constants: the value for nothing is none of *)
(* the others; archives are named apart from each other and from the other *)
(* files.                                                                  *)
FileNames == Schemas \cup 1 .. MaxFiles
Archives == Processes \cup {Earlier[s] : s \in Schemas}
Rows == [archive : Archives, of : Schemas]
Folders ==
  [lock : FileNames \cup {Absent}, db : FileNames \cup {Absent}, archives : SUBSET Archives,
   summary : {Absent, 0, 1}]

FolderConstants ==
  /\ Commands \subseteq [Processes -> {"run", "synthetic", "clean", "details"}]
  /\ Builds \subseteq [Processes -> Schemas]
  /\ \A s \in Schemas : Earlier[s] \notin Processes
  /\ Archives \cap DOMAIN Empty = {}
  /\ Absent \notin FileNames /\ Absent \notin Archives /\ Absent \notin {0, 1}
  /\ Absent \notin Rows /\ Absent \notin Folders /\ Absent \notin SUBSET Archives

Using == {"lookup", "restore", "task", "archive", "replace", "put"}
Stands ==
  Using \cup {"run", "synthetic", "clean", "details", "create", "lock file", "lock", "open", "tables",
              "succeeded", "failed", "cleaning", "ended", "dead", "cut"}

FolderTypeOK ==
  /\ schema \in [Processes -> Schemas]
  /\ stands \in [Processes -> Stands]
  /\ versions \in [Schemas -> Folders \cup {Absent}]
  /\ rows \in [DOMAIN rows -> [tables : BOOLEAN, row : Rows \cup {Absent}]]
  /\ has \in [Processes -> [lock : FileNames \cup {Absent}, db : DOMAIN rows \cup {Absent},
                            got : Rows \cup {Absent}]]
  /\ status \in [Processes -> {Absent, 0, 1}]
  /\ cleans \in [Processes -> (SUBSET Archives) \cup {Absent}]
  /\ gone \subseteq Archives
  /\ DOMAIN rows \subseteq FileNames

(* The database f has its name in the folder of s.                         *)
Linked(s, f) == f \in DOMAIN rows /\ versions[s] # Absent /\ versions[s].db = f
Users(f) == {s \in Schemas : Linked(s, f)} \cup {schema[p] : p \in {q \in Processes : has[q].db = f}}

(* What has a name is there, and what is being used is open.               *)
NamesLead ==
  /\ \A s \in Schemas : versions[s] # Absent => versions[s].db \in DOMAIN rows \cup {Absent}
  /\ \A p \in Processes : stands[p] \in Using \cup {"tables"} => has[p].db # Absent
  /\ \A p \in Processes : stands[p] \in Using => rows[has[p].db].tables

(* A database is of one schema, and so is its row.                         *)
OneSchema ==
  \A f \in DOMAIN rows : \A s \in Users(f) :
    Users(f) = {s} /\ (rows[f].row # Absent => rows[f].row.of = s)

(* A lock is held by one process, and until something is cleaned it is the *)
(* one of the folder.                                                      *)
LocksHold ==
  /\ \A p, q \in Processes :
       p # q /\ stands[p] \in {"open", "tables"} /\ stands[q] \in {"open", "tables"} =>
         has[p].lock # has[q].lock
  /\ \A p \in Processes : stands[p] \in {"lock", "open", "tables"} => has[p].lock # Absent
  /\ (\A c \in Processes : cleans[c] = Absent) =>
       \A p \in Processes : stands[p] \in {"lock", "open", "tables"} =>
         /\ versions[schema[p]] # Absent /\ has[p].lock = versions[schema[p]].lock
         /\ stands[p] = "tables" => versions[schema[p]].db = has[p].db
  /\ \A c \in Processes : cleans[c] # Absent => stands[c] \in {"cleaning", "ended", "cut"}
  /\ \A c \in Processes : /\ stands[c] = "cleaning" => cleans[c] # Absent
                          /\ stands[c] # "ended" => status[c] = Absent

(* A process writes one archive, and then its name into one row.           *)
Wrote == {"replace", "put", "succeeded", "failed", "ended", "dead", "cut"}
ArchivesNamed ==
  /\ \A s \in Schemas : versions[s] # Absent =>
       \A p \in Processes : p \in versions[s].archives => stands[p] \in Wrote
  /\ \A f \in DOMAIN rows : rows[f].row # Absent =>
       /\ rows[f].row.archive \in Processes =>
            /\ stands[rows[f].row.archive] \in Wrote \ {"replace", "put"}
            /\ \A g \in DOMAIN rows :
                 rows[g].row # Absent /\ rows[g].row.archive = rows[f].row.archive => g = f
       /\ rows[f].row.archive \notin Processes => rows[f].row.archive = Earlier[rows[f].row.of]
  /\ \A c, p \in Processes : cleans[c] # Absent /\ p \in cleans[c] => stands[p] \in Wrote
  /\ \A p \in Processes : p \in gone => stands[p] \in Wrote

(* What is gone is named by no database that has a name, and will not be.  *)
GoneIsGone ==
  \A s \in Schemas : \A f \in DOMAIN rows : Linked(s, f) =>
    /\ rows[f].row # Absent => rows[f].row.archive \notin gone
    /\ \A p \in Processes : has[p].db = f /\ stands[p] \in {"replace", "put"} => p \notin gone

(* An archive is where its row is, or will be, unless somebody is at it.   *)
Cut == \E c \in Processes : CleanCut(c)
ArchivesThere ==
  \A s \in Schemas : \A f \in DOMAIN rows : Linked(s, f) =>
    /\ \A p \in Processes : has[p].db = f /\ stands[p] \in {"replace", "put"} =>
         p \in versions[s].archives \/ Cut
    /\ rows[f].row # Absent =>
         \/ rows[f].row.archive \in versions[s].archives \cup {Earlier[s]}
         \/ \E q \in Processes : \/ stands[q] = "put" /\ has[q].db = f
                                 \/ stands[q] = "cut" /\ schema[q] = s
         \/ Cut

FolderIInv ==
  /\ FolderTypeOK /\ NamesLead /\ OneSchema /\ LocksHold /\ ArchivesNamed
  /\ GoneIsGone /\ ArchivesThere

-----------------------------------------------------------------------------
(* The steps.  Most of them move one process on, which closes what it had  *)
(* open or keeps it, and leave the folders as they are, but for a summary. *)
SameFolders ==
  /\ versions' \in [Schemas -> Folders \cup {Absent}]
  /\ \A s \in Schemas :
       /\ versions'[s] = Absent <=> versions[s] = Absent
       /\ versions[s] # Absent => /\ versions'[s].lock = versions[s].lock
                                  /\ versions'[s].db = versions[s].db
                                  /\ versions'[s].archives = versions[s].archives

HasType == [lock : FileNames \cup {Absent}, db : DOMAIN rows \cup {Absent}, got : Rows \cup {Absent}]

(* From where to where a process may move that way.                        *)
Quiet(p, s, h, code) ==
  /\ s \notin {"lock", "tables", "replace", "put", "cleaning"}
  /\ h.db \in {has[p].db, Absent} /\ h.lock \in {has[p].lock, Absent}
  /\ s \in Using => h.db = has[p].db /\ stands[p] \in Using
  /\ s = "open" => /\ h.lock = has[p].lock /\ stands[p] = "lock"
                   /\ \A q \in Processes : has[q].lock = has[p].lock => stands[q] \notin {"open", "tables"}
  /\ stands[p] \in Wrote => s \in Wrote
  /\ stands[p] = "put" => s = "cut" \/ ~Linked(schema[p], has[p].db)
  /\ stands[p] = "cut" => s = "cut"
  /\ s # "ended" => code = Absent
  /\ cleans[p] # Absent => s \in {"ended", "cut"} /\ code # 0

LEMMA QuietStep ==
  ASSUME FolderConstants, FolderIInv, SameFolders, UNCHANGED <<schema, rows, cleans, gone>>,
         NEW p \in Processes, NEW s \in Stands, NEW h \in HasType, NEW code \in {Absent, 0, 1},
         Quiet(p, s, h, code),
         stands' = [stands EXCEPT ![p] = s], has' = [has EXCEPT ![p] = h],
         status' = [status EXCEPT ![p] = code]
  PROVE  FolderIInv'
<1>1. /\ FolderTypeOK /\ NamesLead /\ OneSchema /\ LocksHold /\ ArchivesNamed
      /\ GoneIsGone /\ ArchivesThere
      BY DEF FolderIInv
<1>2. \A q \in Processes : /\ stands'[q] = IF q = p THEN s ELSE stands[q]
                           /\ has'[q] = IF q = p THEN h ELSE has[q]
                           /\ status'[q] = IF q = p THEN code ELSE status[q]
      BY <1>1 DEF FolderTypeOK
<1>3. FolderTypeOK'
      BY <1>1 DEF FolderTypeOK, SameFolders, HasType
<1>4. \A t \in Schemas, f \in DOMAIN rows : Linked(t, f)' <=> Linked(t, f)
      BY DEF Linked, SameFolders
<1>5. \A q \in Processes : has'[q].db \in {has[q].db, Absent} /\ has'[q].lock \in {has[q].lock, Absent}
      BY <1>2 DEF Quiet
<1>6. Absent \notin DOMAIN rows
      BY <1>1 DEF FolderTypeOK, FolderConstants
<1>7. \A f \in DOMAIN rows : Users(f)' \subseteq Users(f)
      BY <1>4, <1>5, <1>6 DEF Users
<1>8. NamesLead'
      BY <1>1, <1>2 DEF NamesLead, SameFolders, Quiet, Using
<1>9. OneSchema'
      BY <1>1, <1>7 DEF OneSchema
<1>10. LocksHold'
      BY <1>1, <1>2 DEF LocksHold, SameFolders, Quiet, FolderTypeOK
<1>11. ArchivesNamed'
      BY <1>1, <1>2 DEF ArchivesNamed, SameFolders, Quiet, Wrote
<1>12. GoneIsGone'
      BY <1>1, <1>2, <1>4, <1>5, <1>6 DEF GoneIsGone, Quiet
<1>13. Cut => Cut'
      BY <1>2 DEF Cut, CleanCut, Quiet
<1>14. \A t \in Schemas, f \in DOMAIN rows, q \in Processes :
         Linked(t, f) /\ stands[q] = "put" /\ has[q].db = f =>
           \/ stands'[q] = "put" /\ has'[q].db = f
           \/ stands'[q] = "cut" /\ schema[q] = t
  <2> SUFFICES ASSUME NEW t \in Schemas, NEW f \in DOMAIN rows, NEW q \in Processes,
                      Linked(t, f), stands[q] = "put", has[q].db = f, q = p
               PROVE  stands'[q] = "cut" /\ schema[q] = t
      BY <1>2
  <2>1. schema[q] \in Schemas /\ schema[q] \in Users(f) /\ t \in Users(f)
        BY <1>1 DEF FolderTypeOK, Users
  <2>2. schema[q] = t
        BY <1>1, <2>1 DEF OneSchema
  <2>. QED BY <1>2, <2>2 DEF Quiet
<1>15. \A q \in Processes : stands[q] = "cut" => stands'[q] = "cut"
      BY <1>2 DEF Quiet
<1>16. ArchivesThere'
  <2> SUFFICES ASSUME NEW t \in Schemas, NEW f \in DOMAIN rows, Linked(t, f)
               PROVE  /\ \A q \in Processes : has'[q].db = f /\ stands'[q] \in {"replace", "put"} =>
                           q \in versions'[t].archives \/ Cut'
                      /\ rows[f].row # Absent =>
                           \/ rows[f].row.archive \in versions'[t].archives \cup {Earlier[t]}
                           \/ \E q \in Processes : \/ stands'[q] = "put" /\ has'[q].db = f
                                                   \/ stands'[q] = "cut" /\ schema'[q] = t
                           \/ Cut'
      BY <1>4 DEF ArchivesThere
  <2>1. versions'[t].archives = versions[t].archives
        BY DEF Linked, SameFolders
  <2>2. \A q \in Processes : has'[q].db = f /\ stands'[q] \in {"replace", "put"} =>
           q \in versions'[t].archives \/ Cut'
        BY <1>1, <1>2, <1>5, <1>6, <1>13, <2>1 DEF ArchivesThere, Quiet
  <2>3. ASSUME rows[f].row # Absent
        PROVE  \/ rows[f].row.archive \in versions[t].archives \cup {Earlier[t]}
               \/ \E q \in Processes : \/ stands[q] = "put" /\ has[q].db = f
                                       \/ stands[q] = "cut" /\ schema[q] = t
               \/ Cut
        BY <1>1, <2>3 DEF ArchivesThere
  <2>. QED BY <1>13, <1>14, <1>15, <2>1, <2>2, <2>3
<1>. QED BY <1>3, <1>8, <1>9, <1>10, <1>11, <1>12, <1>16 DEF FolderIInv

(* A process that ends, or only moves on.                                  *)
LEMMA EndsQuietly ==
  ASSUME FolderConstants, FolderIInv, SameFolders, UNCHANGED <<schema, rows, cleans, gone>>,
         NEW p \in Processes, NEW code \in {0, 1}, Ends(p, code),
         stands[p] \notin {"put", "cut"}, cleans[p] # Absent => code # 0
  PROVE  FolderIInv'
<1>1. PICK h : h = Nothing
      OBVIOUS
<1>2. h \in HasType /\ h.db = Absent /\ h.lock = Absent
      BY <1>1 DEF Nothing, HasType
<1>3. Quiet(p, "ended", h, code)
      BY <1>2 DEF Quiet, Using, Wrote
<1>. QED BY <1>1, <1>2, <1>3, QuietStep DEF Ends, To, Stands

LEMMA MovesQuietly ==
  ASSUME FolderConstants, FolderIInv, UNCHANGED <<schema, versions, rows, cleans, gone, status>>,
         NEW p \in Processes, NEW s \in Stands, NEW h \in HasType, To(p, s),
         has' = [has EXCEPT ![p] = h], Quiet(p, s, h, status[p])
  PROVE  FolderIInv'
<1>1. FolderTypeOK
      BY DEF FolderIInv
<1>2. status[p] \in {Absent, 0, 1} /\ status' = [status EXCEPT ![p] = status[p]]
      BY <1>1 DEF FolderTypeOK
<1>3. SameFolders
      BY <1>1 DEF SameFolders, FolderTypeOK
<1>. QED BY <1>2, <1>3, QuietStep DEF To

LEMMA StaysQuietly ==
  ASSUME FolderConstants, FolderIInv, UNCHANGED <<schema, versions, rows, cleans, gone, status, has>>,
         NEW p \in Processes, NEW s \in Stands, To(p, s), Quiet(p, s, has[p], status[p])
  PROVE  FolderIInv'
<1>1. has[p] \in HasType /\ has' = [has EXCEPT ![p] = has[p]]
      BY DEF FolderIInv, FolderTypeOK, HasType
<1>. QED BY <1>1, MovesQuietly

LEMMA OnlyCleans ==
  ASSUME FolderIInv
  PROVE  /\ FolderTypeOK /\ NamesLead /\ OneSchema /\ LocksHold /\ ArchivesNamed
         /\ GoneIsGone /\ ArchivesThere
         /\ \A p \in Processes : stands[p] \notin {"cleaning", "ended", "cut"} => cleans[p] = Absent
         /\ \A p \in Processes : stands[p] = "cleaning" => cleans[p] # Absent
         /\ \A p \in Processes : stands[p] # "ended" => status[p] = Absent
BY DEF FolderIInv, LocksHold

LEMMA RunsStep ==
  ASSUME FolderConstants, FolderIInv, NEW p \in Processes,
         \/ Plan(p) \/ TakeLock(p) \/ LoadFails(p) \/ Lookup(p) \/ RestoreHit(p) \/ Task(p)
  PROVE  FolderIInv'
<1>1. /\ FolderTypeOK /\ NamesLead
      /\ \A q \in Processes : stands[q] \notin {"cleaning", "ended", "cut"} => cleans[q] = Absent
      /\ \A q \in Processes : stands[q] # "ended" => status[q] = Absent
      BY OnlyCleans
<1>2. SameFolders \/ versions' # versions
      BY <1>1 DEF SameFolders, FolderTypeOK
<1>3. has[p] \in HasType
      BY <1>1 DEF FolderTypeOK, HasType
<1>4. CASE Plan(p)
  <2>1. CASE To(p, "create") /\ UNCHANGED <<has, status>>
    <3>1. Quiet(p, "create", has[p], status[p])
          BY <1>1, <1>4 DEF Plan, Quiet, Using, Wrote
    <3>. QED BY <1>4, <2>1, <3>1, StaysQuietly DEF Plan, chosen, noClean, Stands
  <2>2. CASE Ends(p, 1)
        BY <1>2, <1>4, <2>2, EndsQuietly DEF Plan, chosen, noClean
  <2>. QED BY <1>4, <2>1, <2>2 DEF Plan
<1>5. CASE TakeLock(p)
  <2>1. \A q \in Processes : has[q].lock = has[p].lock => stands[q] \notin {"open", "tables"}
        BY <1>5 DEF TakeLock, Locked
  <2>2. Quiet(p, "open", has[p], status[p])
        BY <1>1, <1>5, <2>1 DEF TakeLock, Quiet, Using, Wrote
  <2>. QED BY <1>5, <2>2, StaysQuietly DEF TakeLock, chosen, noClean, Stands
<1>6. CASE LoadFails(p)
      BY <1>1, <1>2, <1>6, EndsQuietly DEF LoadFails, chosen, noClean
<1>7. CASE Lookup(p)
  <2>1. stands[p] = "lookup" /\ cleans[p] = Absent /\ status[p] = Absent /\ has[p].db \in DOMAIN rows
        BY <1>1, <1>7 DEF Lookup, NamesLead, Using, FolderTypeOK
  <2>2. PICK row : row = rows[has[p].db].row
        OBVIOUS
  <2>3. row \in Rows \cup {Absent}
        BY <1>1, <2>1, <2>2 DEF FolderTypeOK
  <2>4. \/ row # Absent /\ has' = [has EXCEPT ![p].got = row] /\ To(p, "restore")
        \/ UNCHANGED has /\ To(p, "task")
        BY <1>7, <2>2 DEF Lookup
  <2>5. CASE UNCHANGED has /\ To(p, "task")
    <3>1. Quiet(p, "task", has[p], status[p])
          BY <2>1 DEF Quiet, Using, Wrote
    <3>. QED BY <1>7, <2>5, <3>1, StaysQuietly DEF Lookup, chosen, noClean, Stands, Using
  <2>6. CASE row # Absent /\ has' = [has EXCEPT ![p].got = row] /\ To(p, "restore")
    <3>1. PICK h : h = [has[p] EXCEPT !.got = row]
          OBVIOUS
    <3>2. h \in HasType /\ h.db = has[p].db /\ h.lock = has[p].lock
          BY <1>3, <2>3, <2>6, <3>1 DEF HasType
    <3>3. has' = [has EXCEPT ![p] = h]
          BY <2>6, <3>1
    <3>4. Quiet(p, "restore", h, status[p])
          BY <2>1, <3>2 DEF Quiet, Using, Wrote
    <3>. QED BY <1>7, <2>6, <3>2, <3>3, <3>4, MovesQuietly DEF Lookup, chosen, noClean, Stands, Using
  <2>. QED BY <2>4, <2>5, <2>6
<1>8. CASE RestoreHit(p) \/ Task(p)
  <2>1. /\ stands[p] \in {"restore", "task"} /\ cleans[p] = Absent /\ status[p] = Absent
        /\ \E s \in {"archive", "succeeded", "failed"} : To(p, s)
        BY <1>1, <1>8 DEF RestoreHit, Task
  <2>2. PICK s \in {"archive", "succeeded", "failed"} : To(p, s)
        BY <2>1
  <2>3. Quiet(p, s, has[p], status[p])
        BY <2>1, <2>2 DEF Quiet, Using, Wrote
  <2>. QED BY <1>8, <2>2, <2>3, StaysQuietly DEF RestoreHit, Task, chosen, noClean, Stands, Using
<1>. QED BY <1>4, <1>5, <1>6, <1>7, <1>8

LEMMA LeavesStep ==
  ASSUME FolderConstants, FolderIInv, NEW p \in Processes,
         \/ FinishCommand(p) \/ ShowDetails(p) \/ CleanFails(p) \/ Die(p)
  PROVE  FolderIInv'
<1>1. /\ FolderTypeOK /\ NamesLead
      /\ \A q \in Processes : stands[q] \notin {"cleaning", "ended", "cut"} => cleans[q] = Absent
      /\ \A q \in Processes : stands[q] # "ended" => status[q] = Absent
      BY OnlyCleans
<1>2. SameFolders \/ versions' # versions
      BY <1>1 DEF SameFolders, FolderTypeOK
<1>3. CASE FinishCommand(p)
  <2>1. PICK code : code = IF stands[p] = "succeeded" THEN 0 ELSE 1
        OBVIOUS
  <2>2. /\ code \in {0, 1} /\ Ends(p, code) /\ stands[p] \in {"succeeded", "failed"}
        /\ UNCHANGED <<schema, rows, cleans, gone>>
        /\ \/ Here(p) # Absent /\ InFolder(p, [Here(p) EXCEPT !.summary = code])
           \/ UNCHANGED versions
        BY <1>3, <2>1 DEF FinishCommand, chosen, noClean
  <2>3. SameFolders
    <3>1. CASE UNCHANGED versions
          BY <1>2, <3>1
    <3>2. CASE Here(p) # Absent /\ InFolder(p, [Here(p) EXCEPT !.summary = code])
      <4>1. PICK s, v, w : s = schema[p] /\ v = versions[s] /\ w = [v EXCEPT !.summary = code]
            OBVIOUS
      <4>2. /\ s \in Schemas /\ v # Absent /\ v \in Folders
            /\ versions' = [versions EXCEPT ![s] = w]
            BY <1>1, <3>2, <4>1 DEF Here, InFolder, CachePath, FolderTypeOK
      <4>3. w \in Folders /\ w.lock = v.lock /\ w.db = v.db /\ w.archives = v.archives
            BY <2>2, <4>1, <4>2 DEF Folders
      <4>4. w # Absent
            BY <4>3 DEF FolderConstants
      <4>. QED BY <1>1, <4>1, <4>2, <4>3, <4>4 DEF SameFolders, FolderTypeOK
    <3>. QED BY <2>2, <3>1, <3>2
  <2>. QED BY <1>1, <2>2, <2>3, EndsQuietly
<1>4. CASE ShowDetails(p)
  <2>1. PICK code : code = IF Here(p) = Absent \/ Here(p).summary = Absent THEN 1 ELSE Here(p).summary
        OBVIOUS
  <2>2. schema[p] \in Schemas /\ (Here(p) # Absent => Here(p).summary \in {Absent, 0, 1})
        BY <1>1 DEF FolderTypeOK, Here, CachePath, Folders
  <2>3. code \in {0, 1}
        BY <2>1, <2>2
  <2>4. Ends(p, code) /\ stands[p] = "details" /\ UNCHANGED <<schema, rows, versions, cleans, gone>>
        BY <1>4, <2>1 DEF ShowDetails, chosen, noClean
  <2>. QED BY <1>1, <1>2, <2>3, <2>4, EndsQuietly
<1>5. CASE CleanFails(p)
      BY <1>2, <1>5, EndsQuietly DEF CleanFails, chosen
<1>6. CASE Die(p)
  <2>1. PICK s : s = IF stands[p] \in {"put", "cleaning"} THEN "cut" ELSE "dead"
        OBVIOUS
  <2>2. PICK h : h = Nothing
        OBVIOUS
  <2>3. h \in HasType /\ h.db = Absent /\ h.lock = Absent
        BY <2>2 DEF Nothing, HasType
  <2>4. status[p] # 0 \/ cleans[p] = Absent
    <3>1. Absent # 0
          BY DEF FolderConstants
    <3>. QED BY <1>1, <1>6, <3>1 DEF Die
  <2>5. Quiet(p, s, h, status[p])
        BY <1>1, <1>6, <2>1, <2>3, <2>4 DEF Die, Quiet, Using, Wrote
  <2>6. To(p, s) /\ s \in Stands
        BY <1>6, <2>1 DEF Die, To, Stands
  <2>. QED BY <1>6, <2>2, <2>3, <2>5, <2>6, MovesQuietly DEF Die, chosen, noClean
<1>. QED BY <1>3, <1>4, <1>5, <1>6

-----------------------------------------------------------------------------
(* The steps that make something.                                          *)
LEMMA FolderTypes ==
  ASSUME FolderConstants, FolderIInv
  PROVE  /\ \A s \in Schemas : versions[s] # Absent => versions[s] \in Folders
         /\ \A v \in Folders : v # Absent
         /\ Absent \notin FileNames /\ Absent \notin DOMAIN rows
BY DEF FolderIInv, FolderTypeOK, FolderConstants

(* Nothing is put, replaced or removed: archives stay where they are.      *)
Puts == {"replace", "put"}
LEMMA ArchivesStay ==
  ASSUME ArchivesThere, Cut => Cut', UNCHANGED schema,
         \A q \in Processes :
           /\ stands'[q] \in Puts => stands[q] \in Puts /\ has'[q].db = has[q].db
           /\ stands[q] = "put" => stands'[q] = "put" /\ has'[q].db = has[q].db
           /\ stands[q] = "cut" => stands'[q] = "cut",
         \A t \in Schemas : \A f \in DOMAIN rows' : Linked(t, f)' =>
           \/ /\ f \in DOMAIN rows /\ Linked(t, f) /\ rows'[f].row = rows[f].row
              /\ versions'[t].archives = versions[t].archives
           \/ /\ rows'[f].row = Absent
              /\ \A q \in Processes : has'[q].db = f => stands'[q] \notin Puts
  PROVE  ArchivesThere'
<1> SUFFICES ASSUME NEW t \in Schemas, NEW f \in DOMAIN rows', Linked(t, f)'
             PROVE  /\ \A q \in Processes : has'[q].db = f /\ stands'[q] \in Puts =>
                         q \in versions'[t].archives \/ Cut'
                    /\ rows'[f].row # Absent =>
                         \/ rows'[f].row.archive \in versions'[t].archives \cup {Earlier[t]}
                         \/ \E q \in Processes : \/ stands'[q] = "put" /\ has'[q].db = f
                                                 \/ stands'[q] = "cut" /\ schema'[q] = t
                         \/ Cut'
    BY DEF ArchivesThere, Puts
<1>1. CASE /\ f \in DOMAIN rows /\ Linked(t, f) /\ rows'[f].row = rows[f].row
           /\ versions'[t].archives = versions[t].archives
  <2>1. /\ \A q \in Processes : has[q].db = f /\ stands[q] \in Puts => q \in versions[t].archives \/ Cut
        /\ rows[f].row # Absent =>
             \/ rows[f].row.archive \in versions[t].archives \cup {Earlier[t]}
             \/ \E q \in Processes : \/ stands[q] = "put" /\ has[q].db = f
                                     \/ stands[q] = "cut" /\ schema[q] = t
             \/ Cut
        BY <1>1 DEF ArchivesThere, Puts
  <2>. QED BY <1>1, <2>1
<1>2. CASE /\ rows'[f].row = Absent
           /\ \A q \in Processes : has'[q].db = f => stands'[q] \notin Puts
      BY <1>2
<1>. QED BY <1>1, <1>2

LEMMA CreateFolderStep ==
  ASSUME FolderConstants, FolderIInv, NEW p \in Processes, CreateFolder(p)
  PROVE  FolderIInv'
<1>1. /\ FolderTypeOK /\ NamesLead /\ OneSchema /\ LocksHold /\ ArchivesNamed
      /\ GoneIsGone /\ ArchivesThere
      BY DEF FolderIInv
<1>2. PICK s : s = schema[p]
      OBVIOUS
<1>3. /\ s \in Schemas /\ stands[p] = "create" /\ stands' = [stands EXCEPT ![p] = "lock file"]
      /\ UNCHANGED <<schema, rows, has, status, cleans, gone>>
      /\ versions' = IF versions[s] = Absent THEN [versions EXCEPT ![s] = Empty] ELSE versions
      BY <1>1, <1>2 DEF CreateFolder, Here, InFolder, CachePath, To, chosen, noClean, FolderTypeOK
<1>16. stands[p] = "create" /\ UNCHANGED <<schema, rows, has, status, cleans, gone>>
      BY <1>3
<1>4. Empty \in Folders /\ Empty # Absent /\ Empty.db = Absent /\ Empty.archives = {}
  <2>1. Empty \in Folders /\ Empty.db = Absent /\ Empty.archives = {}
        BY DEF Empty, Folders
  <2>. QED BY <2>1 DEF FolderConstants
<1>5. \A t \in Schemas : \/ versions'[t] = versions[t]
                         \/ versions[t] = Absent /\ versions'[t] = Empty
      BY <1>1, <1>3 DEF FolderTypeOK
<1>6. \A q \in Processes : stands'[q] = IF q = p THEN "lock file" ELSE stands[q]
      BY <1>1, <1>3 DEF FolderTypeOK
<1>7. FolderTypeOK'
      BY <1>1, <1>3, <1>4 DEF FolderTypeOK, Stands
<1>8. \A t \in Schemas, f \in DOMAIN rows : /\ Linked(t, f)' <=> Linked(t, f)
                                            /\ Linked(t, f) => versions'[t] = versions[t]
      BY <1>3, <1>4, <1>5, FolderTypes DEF Linked
<1>9. NamesLead'
      BY <1>1, <1>16, <1>4, <1>5, <1>6 DEF NamesLead, Using
<1>10. OneSchema'
  <2>1. \A f \in DOMAIN rows : Users(f)' = Users(f)
        BY <1>3, <1>8 DEF Users
  <2>. QED BY <1>1, <1>3, <2>1 DEF OneSchema
<1>11. LocksHold'
  <2>1. \A q \in Processes : schema[q] \in Schemas
        BY <1>1 DEF FolderTypeOK
  <2>. QED BY <1>1, <1>5, <1>6, <1>16, <2>1 DEF LocksHold
<1>12. ArchivesNamed'
      BY <1>1, <1>16, <1>4, <1>5, <1>6 DEF ArchivesNamed, Wrote
<1>13. GoneIsGone'
      BY <1>1, <1>16, <1>6, <1>8 DEF GoneIsGone
<1>14. Cut' <=> Cut
      BY <1>3 DEF Cut, CleanCut
<1>15. ArchivesThere'
  <2>1. \A t \in Schemas : \A f \in DOMAIN rows' : Linked(t, f)' =>
          /\ f \in DOMAIN rows /\ Linked(t, f) /\ rows'[f].row = rows[f].row
          /\ versions'[t].archives = versions[t].archives
        BY <1>8, <1>16
  <2>. QED BY <1>1, <1>6, <1>14, <1>16, <2>1, ArchivesStay DEF Puts
<1>. QED BY <1>7, <1>9, <1>10, <1>11, <1>12, <1>13, <1>15 DEF FolderIInv

LEMMA CreateLockStep ==
  ASSUME FolderConstants, FolderIInv, NEW p \in Processes, CreateLock(p)
  PROVE  FolderIInv'
<1>1. /\ FolderTypeOK /\ NamesLead /\ OneSchema /\ LocksHold /\ ArchivesNamed
      /\ GoneIsGone /\ ArchivesThere
      BY DEF FolderIInv
<1>2. PICK s, v, lock :
        s = schema[p] /\ v = versions[s] /\ lock = IF v.lock # Absent THEN v.lock ELSE NewFile
      OBVIOUS
<1>3. /\ s \in Schemas /\ stands[p] = "lock file" /\ stands' = [stands EXCEPT ![p] = "lock"]
      /\ v # Absent /\ v \in Folders
      /\ UNCHANGED <<schema, rows, status, cleans, gone>>
      /\ \/ v.lock # Absent /\ v.lock = lock /\ UNCHANGED versions
         \/ /\ v.lock = Absent /\ Unused # {} /\ lock = NewFile
            /\ versions' = [versions EXCEPT ![s] = [v EXCEPT !.lock = lock]]
      /\ has' = [has EXCEPT ![p].lock = lock]
      BY <1>1, <1>2, FolderTypes DEF CreateLock, Here, InFolder, CachePath, To, chosen, noClean, FolderTypeOK
<1>4. lock \in FileNames /\ lock # Absent
  <2>1. CASE v.lock # Absent /\ v.lock = lock
    <3>1. v.lock \in FileNames \cup {Absent} /\ v.lock # Absent
          BY <1>3, <2>1 DEF Folders
    <3>. QED BY <2>1, <3>1
  <2>2. CASE Unused # {} /\ lock = NewFile
        BY <2>2, FolderTypes DEF NewFile, Unused, FileNames
  <2>. QED BY <1>3, <2>1, <2>2
<1>18. stands[p] = "lock file" /\ UNCHANGED <<schema, rows, status, cleans, gone>>
      BY <1>3
<1>5. PICK w : w = [v EXCEPT !.lock = lock]
      OBVIOUS
<1>6. w \in Folders /\ w # Absent /\ w.lock = lock /\ w.db = v.db /\ w.archives = v.archives
  <2>1. w \in Folders /\ w.lock = lock /\ w.db = v.db /\ w.archives = v.archives
        BY <1>3, <1>4, <1>5 DEF Folders
  <2>. QED BY <2>1, FolderTypes
<1>7. \A t \in Schemas : /\ versions'[t] # Absent <=> versions[t] # Absent
                         /\ versions[t] # Absent => /\ versions'[t].db = versions[t].db
                                                    /\ versions'[t].archives = versions[t].archives
                                                    /\ \/ versions'[t].lock = versions[t].lock
                                                       \/ versions[t].lock = Absent
      BY <1>1, <1>2, <1>3, <1>5, <1>6 DEF FolderTypeOK
<1>8. /\ has' \in [Processes -> HasType]
      /\ \A q \in Processes : /\ stands'[q] = IF q = p THEN "lock" ELSE stands[q]
                              /\ has'[q].db = has[q].db
                              /\ has'[q].lock = IF q = p THEN lock ELSE has[q].lock
  <2>1. \A q \in Processes : has[q] \in HasType
        BY <1>1 DEF FolderTypeOK, HasType
  <2>2. \A q \in Processes : has'[q] = IF q = p THEN [has[q] EXCEPT !.lock = lock] ELSE has[q]
        BY <1>1, <1>3 DEF FolderTypeOK
  <2>3. \A h \in HasType : /\ [h EXCEPT !.lock = lock] \in HasType
                           /\ [h EXCEPT !.lock = lock].db = h.db
                           /\ [h EXCEPT !.lock = lock].lock = lock
        BY <1>4 DEF HasType
  <2>4. has' \in [Processes -> HasType]
    <3>1. has' = [q \in Processes |-> has'[q]]
          BY <1>1, <1>3 DEF FolderTypeOK
    <3>. QED BY <2>1, <2>2, <2>3, <3>1
  <2>5. \A q \in Processes : stands'[q] = IF q = p THEN "lock" ELSE stands[q]
        BY <1>1, <1>3 DEF FolderTypeOK
  <2>6. \A q \in Processes : has'[q].db = has[q].db /\ has'[q].lock = IF q = p THEN lock ELSE has[q].lock
        BY <2>1, <2>2, <2>3
  <2>. QED BY <2>4, <2>5, <2>6
<1>9. FolderTypeOK'
  <2>1. versions' \in [Schemas -> Folders \cup {Absent}]
        BY <1>1, <1>3, <1>5, <1>6 DEF FolderTypeOK
  <2>. QED BY <1>1, <1>3, <1>8, <2>1 DEF FolderTypeOK, Stands, HasType
<1>10. \A t \in Schemas, f \in DOMAIN rows : Linked(t, f)' <=> Linked(t, f)
      BY <1>3, <1>7 DEF Linked
<1>11. NamesLead'
  <2>1. \A q \in Processes : stands'[q] \in Using \cup {"tables"} =>
          stands'[q] = stands[q] /\ has'[q].db = has[q].db
        BY <1>8 DEF Using
  <2>. QED BY <1>1, <1>7, <1>18, <2>1 DEF NamesLead
<1>12. OneSchema'
  <2>1. \A f \in DOMAIN rows : Users(f)' = Users(f)
        BY <1>8, <1>10, <1>18 DEF Users
  <2>. QED BY <1>1, <1>3, <2>1 DEF OneSchema
<1>13. LocksHold'
  <2>1. versions'[s] # Absent /\ versions'[s].lock = lock
        BY <1>1, <1>2, <1>3, <1>5, <1>6 DEF FolderTypeOK
  <2>2. ASSUME \A c \in Processes : cleans[c] = Absent, NEW q \in Processes,
               stands'[q] \in {"lock", "open", "tables"}
        PROVE  /\ versions'[schema[q]] # Absent /\ has'[q].lock = versions'[schema[q]].lock
               /\ stands'[q] = "tables" => versions'[schema[q]].db = has'[q].db
    <3>1. CASE q = p
          BY <1>2, <1>8, <2>1, <3>1
    <3>2. CASE q # p
      <4>1. PICK t \in Schemas : t = schema[q]
            BY <1>1 DEF FolderTypeOK
      <4>2. /\ versions[t] # Absent /\ has[q].lock = versions[t].lock
            /\ stands[q] = "tables" => versions[t].db = has[q].db
            BY <1>1, <1>8, <2>2, <3>2, <4>1 DEF LocksHold
      <4>3. CASE t = s /\ v.lock = Absent
        <5>1. has[q].lock = Absent /\ stands[q] \in {"lock", "open", "tables"}
              BY <1>2, <1>8, <2>2, <3>2, <4>2, <4>3
        <5>. QED BY <1>1, <5>1 DEF LocksHold
      <4>4. CASE ~(t = s /\ v.lock = Absent)
            BY <1>1, <1>2, <1>3, <1>7, <1>8, <3>2, <4>1, <4>2, <4>4 DEF FolderTypeOK
      <4>. QED BY <4>3, <4>4
    <3>. QED BY <3>1, <3>2
  <2>3. /\ \A q, r \in Processes :
             q # r /\ stands'[q] \in {"open", "tables"} /\ stands'[r] \in {"open", "tables"} =>
               has'[q].lock # has'[r].lock
        /\ \A q \in Processes : stands'[q] \in {"lock", "open", "tables"} => has'[q].lock # Absent
        /\ \A c \in Processes : cleans[c] # Absent => stands'[c] \in {"cleaning", "ended", "cut"}
        /\ \A c \in Processes : /\ stands'[c] = "cleaning" => cleans[c] # Absent
                                /\ stands'[c] # "ended" => status[c] = Absent
    <3>1. /\ \A q \in Processes : stands'[q] = IF q = p THEN "lock" ELSE stands[q]
          /\ \A q \in Processes : q # p => has'[q].lock = has[q].lock
          /\ has'[p].lock # Absent
          BY <1>4, <1>8
    <3>2. /\ UNCHANGED cleans /\ UNCHANGED status /\ stands[p] = "lock file"
          BY <1>18
    <3>3. \A q, r \in Processes :
             q # r /\ stands'[q] \in {"open", "tables"} /\ stands'[r] \in {"open", "tables"} =>
               has'[q].lock # has'[r].lock
          BY <1>1, <3>1 DEF LocksHold
    <3>4. \A q \in Processes : stands'[q] \in {"lock", "open", "tables"} => has'[q].lock # Absent
          BY <1>1, <3>1 DEF LocksHold
    <3>. QED BY <1>1, <3>1, <3>2, <3>3, <3>4 DEF LocksHold
  <2>. QED BY <1>3, <2>2, <2>3 DEF LocksHold
<1>14. ArchivesNamed'
      BY <1>1, <1>7, <1>8, <1>18 DEF ArchivesNamed, Wrote
<1>15. GoneIsGone'
      BY <1>1, <1>8, <1>10, <1>18 DEF GoneIsGone
<1>16. Cut' <=> Cut
      BY <1>3 DEF Cut, CleanCut
<1>17. ArchivesThere'
  <2>1. \A t \in Schemas, f \in DOMAIN rows : Linked(t, f) => versions'[t].archives = versions[t].archives
        BY <1>7 DEF Linked
  <2>2. \A t \in Schemas : \A f \in DOMAIN rows' : Linked(t, f)' =>
          /\ f \in DOMAIN rows /\ Linked(t, f) /\ rows'[f].row = rows[f].row
          /\ versions'[t].archives = versions[t].archives
        BY <1>10, <1>18, <2>1
  <2>. QED BY <1>1, <1>8, <1>16, <1>18, <2>2, ArchivesStay DEF Puts
<1>. QED BY <1>9, <1>11, <1>12, <1>13, <1>14, <1>15, <1>17 DEF FolderIInv

LEMMA OpenDatabaseStep ==
  ASSUME FolderConstants, FolderIInv, NEW p \in Processes, OpenDatabase(p)
  PROVE  FolderIInv'
<1>1. /\ FolderTypeOK /\ NamesLead /\ OneSchema /\ LocksHold /\ ArchivesNamed
      /\ GoneIsGone /\ ArchivesThere
      BY DEF FolderIInv
<1>2. PICK s, v, data :
        s = schema[p] /\ v = versions[s] /\ data = IF v.db # Absent THEN v.db ELSE NewFile
      OBVIOUS
<1>3. s \in Schemas /\ v # Absent /\ v \in Folders /\ v.db \in DOMAIN rows \cup {Absent}
      BY <1>1, <1>2, FolderTypes DEF OpenDatabase, Here, CachePath, FolderTypeOK, NamesLead
<1>4. /\ stands[p] = "open" /\ UNCHANGED <<schema, status, cleans, gone>>
      /\ stands' = [stands EXCEPT ![p] = "tables"] /\ has' = [has EXCEPT ![p].db = data]
      BY <1>2 DEF OpenDatabase, Here, CachePath, To, chosen, noClean
<1>5. \/ v.db # Absent /\ v.db = data /\ UNCHANGED <<versions, rows>>
      \/ /\ v.db = Absent /\ Unused # {} /\ data = NewFile
         /\ versions' = [versions EXCEPT ![s] = [v EXCEPT !.db = data]]
         /\ rows' = [f \in DOMAIN rows \cup {data} |->
                       IF f = data THEN [tables |-> FALSE, row |-> Absent] ELSE rows[f]]
      BY <1>2 DEF OpenDatabase, Here, InFolder, CachePath
<1>6. data \in FileNames /\ data # Absent /\ (v.db # data => v.db = Absent /\ data \notin DOMAIN rows)
  <2>1. CASE v.db # Absent /\ v.db = data
        BY <1>1, <1>3, <2>1 DEF FolderTypeOK
  <2>2. CASE Unused # {} /\ data = NewFile /\ v.db = Absent
    <3>1. NewFile \in Unused
          BY <2>2 DEF NewFile
    <3>. QED BY <2>2, <3>1, FolderTypes DEF Unused, FileNames
  <2>. QED BY <1>5, <2>1, <2>2
<1>7. /\ DOMAIN rows' = DOMAIN rows \cup {data}
      /\ rows' \in [DOMAIN rows' -> [tables : BOOLEAN, row : Rows \cup {Absent}]]
      /\ \A f \in DOMAIN rows : rows'[f] = rows[f]
      /\ data \notin DOMAIN rows => rows'[data].row = Absent
  <2>1. CASE v.db # Absent /\ v.db = data /\ UNCHANGED <<versions, rows>>
        BY <1>1, <1>3, <2>1 DEF FolderTypeOK
  <2>2. CASE /\ v.db = Absent
             /\ rows' = [f \in DOMAIN rows \cup {data} |->
                           IF f = data THEN [tables |-> FALSE, row |-> Absent] ELSE rows[f]]
    <3>1. data \notin DOMAIN rows
          BY <1>6, <2>2
    <3>2. [tables |-> FALSE, row |-> Absent] \in [tables : BOOLEAN, row : Rows \cup {Absent}]
          OBVIOUS
    <3>3. \A f \in DOMAIN rows : rows[f] \in [tables : BOOLEAN, row : Rows \cup {Absent}]
          BY <1>1 DEF FolderTypeOK
    <3>. QED BY <2>2, <3>1, <3>2, <3>3
  <2>. QED BY <1>5, <2>1, <2>2
<1>8. /\ versions' \in [Schemas -> Folders \cup {Absent}]
      /\ \A t \in Schemas : /\ versions'[t] # Absent <=> versions[t] # Absent
                            /\ versions[t] # Absent =>
                                 /\ versions'[t].lock = versions[t].lock
                                 /\ versions'[t].archives = versions[t].archives
                                 /\ versions'[t].db = IF t = s THEN data ELSE versions[t].db
  <2>1. PICK w : w = [v EXCEPT !.db = data]
        OBVIOUS
  <2>2. w \in Folders /\ w.lock = v.lock /\ w.db = data /\ w.archives = v.archives
        BY <1>3, <1>6, <2>1 DEF Folders
  <2>3. w # Absent
        BY <2>2, FolderTypes
  <2>4. CASE v.db = data /\ UNCHANGED versions
        BY <1>1, <1>2, <2>4 DEF FolderTypeOK
  <2>5. CASE versions' = [versions EXCEPT ![s] = w]
        BY <1>1, <1>2, <1>3, <2>2, <2>3, <2>5 DEF FolderTypeOK
  <2>. QED BY <1>5, <2>1, <2>4, <2>5
<1>9. /\ has' \in [Processes -> HasType']
      /\ \A q \in Processes : /\ has'[q].db = IF q = p THEN data ELSE has[q].db
                              /\ has'[q].lock = has[q].lock
  <2>1. \A q \in Processes : has[q] \in HasType
        BY <1>1 DEF FolderTypeOK, HasType
  <2>2. \A q \in Processes : has'[q] = IF q = p THEN [has[q] EXCEPT !.db = data] ELSE has[q]
        BY <1>1, <1>4 DEF FolderTypeOK
  <2>3. \A h \in HasType : /\ [h EXCEPT !.db = data] \in HasType' /\ h \in HasType'
                           /\ [h EXCEPT !.db = data].db = data
                           /\ [h EXCEPT !.db = data].lock = h.lock
        BY <1>7 DEF HasType
  <2>4. has' = [q \in Processes |-> has'[q]]
        BY <1>1, <1>4 DEF FolderTypeOK
  <2>5. \A q \in Processes : has'[q] \in HasType'
        BY <2>1, <2>2, <2>3
  <2>6. has' \in [Processes -> HasType']
        BY <2>4, <2>5
  <2>. QED BY <2>1, <2>2, <2>3, <2>6
<1>10. \A q \in Processes : stands'[q] = IF q = p THEN "tables" ELSE stands[q]
      BY <1>1, <1>4 DEF FolderTypeOK
<1>11. stands[p] = "open" /\ UNCHANGED schema /\ UNCHANGED status /\ UNCHANGED cleans /\ UNCHANGED gone
      BY <1>4
<1>12. FolderTypeOK'
  <2>1. DOMAIN rows' \subseteq FileNames
        BY <1>1, <1>6, <1>7 DEF FolderTypeOK
  <2>2. stands' \in [Processes -> Stands]
        BY <1>1, <1>4 DEF FolderTypeOK, Stands
  <2>3. has' \in [Processes -> [lock : FileNames \cup {Absent}, db : DOMAIN rows' \cup {Absent},
                                got : Rows \cup {Absent}]]
        BY <1>9 DEF HasType
  <2>. QED BY <1>1, <1>7, <1>8, <1>11, <2>1, <2>2, <2>3 DEF FolderTypeOK
<1>13. \A t \in Schemas, f \in DOMAIN rows' :
         Linked(t, f)' <=> (Linked(t, f) \/ (t = s /\ f = data))
  <2> SUFFICES ASSUME NEW t \in Schemas, NEW f \in DOMAIN rows'
               PROVE  Linked(t, f)' <=> (Linked(t, f) \/ (t = s /\ f = data))
      OBVIOUS
  <2>1. versions[s] # Absent /\ versions[s].db \in {data, Absent} /\ (versions[s].db = data \/ data \notin DOMAIN rows)
        BY <1>2, <1>3, <1>6
  <2>2. versions[t] # Absent => versions[t].db \in DOMAIN rows \cup {Absent}
        BY <1>1 DEF NamesLead
  <2>3. Absent \notin DOMAIN rows
        BY FolderTypes
  <2>4. versions'[t] # Absent <=> versions[t] # Absent
        BY <1>8
  <2>5. versions[t] # Absent => versions'[t].db = IF t = s THEN data ELSE versions[t].db
        BY <1>8
  <2>6. f \in DOMAIN rows \/ f = data
        BY <1>7
  <2>. QED BY <1>6, <2>1, <2>2, <2>3, <2>4, <2>5, <2>6 DEF Linked
<1>14. \A q \in Processes : q # p /\ has[q].db = data => data \in DOMAIN rows
      BY <1>1, <1>6 DEF FolderTypeOK
<1>15. NamesLead'
  <2>1. \A t \in Schemas : versions'[t] # Absent => versions'[t].db \in DOMAIN rows' \cup {Absent}
        BY <1>1, <1>7, <1>8 DEF NamesLead
  <2>2. \A q \in Processes : stands'[q] \in Using \cup {"tables"} => has'[q].db # Absent
        BY <1>1, <1>6, <1>9, <1>10 DEF NamesLead
  <2>3. \A q \in Processes : stands'[q] \in Using => rows'[has'[q].db].tables
    <3> SUFFICES ASSUME NEW q \in Processes, stands'[q] \in Using PROVE rows'[has'[q].db].tables
        OBVIOUS
    <3>1. q # p /\ stands[q] \in Using /\ has'[q].db = has[q].db
          BY <1>9, <1>10 DEF Using
    <3>2. rows[has[q].db].tables /\ has[q].db # Absent /\ has[q].db \in DOMAIN rows \cup {Absent}
          BY <1>1, <3>1 DEF NamesLead, FolderTypeOK
    <3>. QED BY <1>7, <3>1, <3>2
  <2>. QED BY <2>1, <2>2, <2>3 DEF NamesLead
<1>16. OneSchema'
  <2> SUFFICES ASSUME NEW f \in DOMAIN rows', NEW u \in Users(f)'
               PROVE  Users(f)' = {u} /\ (rows'[f].row # Absent => rows'[f].row.of = u)
      BY DEF OneSchema
  <2>1. CASE f \in DOMAIN rows
    <3>1. f = data => Linked(s, f)
          BY <1>2, <1>3, <1>6, <2>1 DEF Linked
    <3>2. s \in Schemas /\ schema[p] = s
          BY <1>2, <1>3
    <3>3. Users(f)' \subseteq Users(f)
      <4>1. \A t \in Schemas : Linked(t, f)' => Linked(t, f)
            BY <1>13, <2>1, <3>1
      <4>2. \A q \in Processes : has'[q].db = f => has[q].db = f \/ (schema[q] = s /\ Linked(s, f))
            BY <1>9, <3>1, <3>2
      <4>. QED BY <1>11, <3>2, <4>1, <4>2 DEF Users
    <3>4. Users(f) = {u} /\ (rows[f].row # Absent => rows[f].row.of = u)
          BY <1>1, <2>1, <3>3 DEF OneSchema
    <3>. QED BY <1>7, <2>1, <3>3, <3>4
  <2>2. CASE f \notin DOMAIN rows
    <3>1. f = data /\ data \notin DOMAIN rows /\ rows'[f].row = Absent
          BY <1>7, <2>2
    <3>2. \A t \in Schemas : Linked(t, f)' => t = s
          BY <1>13, <2>2 DEF Linked
    <3>3. \A q \in Processes : has'[q].db = f => q = p
          BY <1>9, <1>14, <3>1
    <3>4. Users(f)' \subseteq {s}
          BY <1>2, <1>11, <3>2, <3>3 DEF Users
    <3>. QED BY <3>1, <3>4
  <2>. QED BY <2>1, <2>2
<1>17. LocksHold'
  <2>1. ASSUME \A c \in Processes : cleans[c] = Absent, NEW q \in Processes,
               stands'[q] \in {"lock", "open", "tables"}
        PROVE  /\ versions'[schema[q]] # Absent /\ has'[q].lock = versions'[schema[q]].lock
               /\ stands'[q] = "tables" => versions'[schema[q]].db = has'[q].db
    <3>1. PICK t \in Schemas : t = schema[q]
          BY <1>1 DEF FolderTypeOK
    <3>2. stands[q] \in {"lock", "open", "tables"}
          BY <1>10, <1>11, <2>1
    <3>3. /\ versions[t] # Absent /\ has[q].lock = versions[t].lock
          /\ stands[q] = "tables" => versions[t].db = has[q].db
          BY <1>1, <2>1, <3>1, <3>2 DEF LocksHold
    <3>4. versions'[t] # Absent /\ has'[q].lock = versions'[t].lock
          BY <1>8, <1>9, <3>3
    <3>5. ASSUME stands'[q] = "tables" PROVE versions'[t].db = has'[q].db
      <4>1. CASE q = p
            BY <1>2, <1>8, <1>9, <3>1, <3>3, <4>1
      <4>2. CASE q # p
        <5>1. stands[q] = "tables" /\ has'[q].db = has[q].db /\ versions[t].db = has[q].db
              BY <1>9, <1>10, <3>3, <3>5, <4>2
        <5>2. has[q].db # Absent
              BY <1>1, <5>1 DEF NamesLead
        <5>3. t = s => v.db = data
              BY <1>2, <1>6, <5>1, <5>2
        <5>. QED BY <1>2, <1>8, <3>3, <5>1, <5>3
      <4>. QED BY <4>1, <4>2
    <3>. QED BY <3>1, <3>4, <3>5
  <2>2. \A q, r \in Processes :
           q # r /\ stands'[q] \in {"open", "tables"} /\ stands'[r] \in {"open", "tables"} =>
             has'[q].lock # has'[r].lock
        BY <1>1, <1>9, <1>10, <1>11 DEF LocksHold
  <2>3. \A q \in Processes : stands'[q] \in {"lock", "open", "tables"} => has'[q].lock # Absent
        BY <1>1, <1>9, <1>10, <1>11 DEF LocksHold
  <2>4. \A c \in Processes : cleans[c] # Absent => stands'[c] \in {"cleaning", "ended", "cut"}
        BY <1>1, <1>10, <1>11 DEF LocksHold
  <2>5. \A c \in Processes : /\ stands'[c] = "cleaning" => cleans[c] # Absent
                             /\ stands'[c] # "ended" => status[c] = Absent
        BY <1>1, <1>10, <1>11 DEF LocksHold
  <2>. QED BY <1>11, <2>1, <2>2, <2>3, <2>4, <2>5 DEF LocksHold
<1>18. ArchivesNamed'
  <2>1. \A t \in Schemas : versions'[t] # Absent =>
          \A q \in Processes : q \in versions'[t].archives => stands'[q] \in Wrote
        BY <1>1, <1>8, <1>10, <1>11 DEF ArchivesNamed, Wrote
  <2>2. \A f \in DOMAIN rows' : rows'[f].row # Absent => f \in DOMAIN rows /\ rows'[f] = rows[f]
        BY <1>7
  <2>3. \A q \in Processes : stands[q] \in Wrote => stands'[q] = stands[q]
        BY <1>10, <1>11 DEF Wrote
  <2>4. \A f \in DOMAIN rows' : rows'[f].row # Absent =>
          /\ rows'[f].row.archive \in Processes =>
               /\ stands'[rows'[f].row.archive] \in Wrote \ {"replace", "put"}
               /\ \A g \in DOMAIN rows' :
                    rows'[g].row # Absent /\ rows'[g].row.archive = rows'[f].row.archive => g = f
          /\ rows'[f].row.archive \notin Processes => rows'[f].row.archive = Earlier[rows'[f].row.of]
        BY <1>1, <2>2, <2>3 DEF ArchivesNamed
  <2>5. /\ \A c, q \in Processes : cleans[c] # Absent /\ q \in cleans[c] => stands'[q] \in Wrote
        /\ \A q \in Processes : q \in gone => stands'[q] \in Wrote
        BY <1>1, <2>3 DEF ArchivesNamed
  <2>. QED BY <1>11, <2>1, <2>4, <2>5 DEF ArchivesNamed
<1>19. \A q \in Processes : stands'[q] \in Puts => stands[q] \in Puts /\ q # p /\ has'[q].db = has[q].db
      BY <1>9, <1>10 DEF Puts
<1>20. \A t \in Schemas : \A f \in DOMAIN rows' : Linked(t, f)' =>
         \/ /\ f \in DOMAIN rows /\ Linked(t, f) /\ rows'[f].row = rows[f].row
            /\ versions'[t].archives = versions[t].archives
         \/ /\ rows'[f].row = Absent
            /\ \A q \in Processes : has'[q].db = f => stands'[q] \notin Puts
  <2> SUFFICES ASSUME NEW t \in Schemas, NEW f \in DOMAIN rows', Linked(t, f)'
               PROVE  \/ /\ f \in DOMAIN rows /\ Linked(t, f) /\ rows'[f].row = rows[f].row
                         /\ versions'[t].archives = versions[t].archives
                      \/ /\ rows'[f].row = Absent
                         /\ \A q \in Processes : has'[q].db = f => stands'[q] \notin Puts
      OBVIOUS
  <2>1. CASE f \in DOMAIN rows
    <3>1. Linked(t, f)
          BY <1>2, <1>3, <1>6, <1>13, <2>1 DEF Linked
    <3>. QED BY <1>7, <1>8, <2>1, <3>1 DEF Linked
  <2>2. CASE f \notin DOMAIN rows
        BY <1>7, <1>9, <1>14, <1>19, <2>2
  <2>. QED BY <2>1, <2>2
<1>21. GoneIsGone'
  <2> SUFFICES ASSUME NEW t \in Schemas, NEW f \in DOMAIN rows', Linked(t, f)'
               PROVE  /\ rows'[f].row # Absent => rows'[f].row.archive \notin gone
                      /\ \A q \in Processes : has'[q].db = f /\ stands'[q] \in Puts => q \notin gone
      BY <1>11 DEF GoneIsGone, Puts
  <2>. QED BY <1>1, <1>19, <1>20 DEF GoneIsGone, Puts
<1>22. Cut' <=> Cut
      BY <1>11 DEF Cut, CleanCut
<1>23. ArchivesThere'
  <2>1. \A q \in Processes :
           /\ stands'[q] \in Puts => stands[q] \in Puts /\ has'[q].db = has[q].db
           /\ stands[q] = "put" => stands'[q] = "put" /\ has'[q].db = has[q].db
           /\ stands[q] = "cut" => stands'[q] = "cut"
        BY <1>9, <1>10, <1>11, <1>19
  <2>. QED BY <1>1, <1>11, <1>20, <1>22, <2>1, ArchivesStay
<1>. QED BY <1>12, <1>15, <1>16, <1>17, <1>18, <1>21, <1>23 DEF FolderIInv

LEMMA CreateTablesStep ==
  ASSUME FolderConstants, FolderIInv, NEW p \in Processes, CreateTables(p)
  PROVE  FolderIInv'
<1>1. /\ FolderTypeOK /\ NamesLead /\ OneSchema /\ LocksHold /\ ArchivesNamed
      /\ GoneIsGone /\ ArchivesThere
      BY DEF FolderIInv
<1>2. PICK d : d = has[p].db
      OBVIOUS
<1>3. /\ stands[p] = "tables" /\ stands' = [stands EXCEPT ![p] = "lookup"]
      /\ rows' = [rows EXCEPT ![d].tables = TRUE] /\ has' = [has EXCEPT ![p].lock = Absent]
      /\ UNCHANGED <<schema, versions, status, cleans, gone>>
      BY <1>2 DEF CreateTables, To, chosen, noClean
<1>4. d \in DOMAIN rows
      BY <1>1, <1>2, <1>3 DEF FolderTypeOK, NamesLead
<1>5. /\ DOMAIN rows' = DOMAIN rows
      /\ rows' \in [DOMAIN rows -> [tables : BOOLEAN, row : Rows \cup {Absent}]]
      /\ \A f \in DOMAIN rows : /\ rows'[f].row = rows[f].row
                                /\ rows'[f].tables = IF f = d THEN TRUE ELSE rows[f].tables
  <2>1. \A f \in DOMAIN rows : rows[f] \in [tables : BOOLEAN, row : Rows \cup {Absent}]
        BY <1>1 DEF FolderTypeOK
  <2>2. rows' = [f \in DOMAIN rows |-> IF f = d THEN [rows[f] EXCEPT !.tables = TRUE] ELSE rows[f]]
        BY <1>1, <1>3, <1>4 DEF FolderTypeOK
  <2>3. \A r \in [tables : BOOLEAN, row : Rows \cup {Absent}] :
          /\ [r EXCEPT !.tables = TRUE] \in [tables : BOOLEAN, row : Rows \cup {Absent}]
          /\ [r EXCEPT !.tables = TRUE].row = r.row /\ [r EXCEPT !.tables = TRUE].tables = TRUE
        OBVIOUS
  <2>. QED BY <2>1, <2>2, <2>3
<1>6. /\ has' \in [Processes -> HasType]
      /\ \A q \in Processes : /\ has'[q].db = has[q].db
                              /\ has'[q].lock = IF q = p THEN Absent ELSE has[q].lock
  <2>1. \A q \in Processes : has[q] \in HasType
        BY <1>1 DEF FolderTypeOK, HasType
  <2>2. has' = [q \in Processes |-> IF q = p THEN [has[q] EXCEPT !.lock = Absent] ELSE has[q]]
        BY <1>1, <1>3 DEF FolderTypeOK
  <2>3. \A h \in HasType : /\ [h EXCEPT !.lock = Absent] \in HasType
                           /\ [h EXCEPT !.lock = Absent].db = h.db
                           /\ [h EXCEPT !.lock = Absent].lock = Absent
        BY DEF HasType
  <2>. QED BY <2>1, <2>2, <2>3
<1>7. \A q \in Processes : stands'[q] = IF q = p THEN "lookup" ELSE stands[q]
      BY <1>1, <1>3 DEF FolderTypeOK
<1>8. /\ stands[p] = "tables" /\ UNCHANGED schema /\ UNCHANGED status /\ UNCHANGED cleans /\ UNCHANGED gone
      /\ UNCHANGED versions
      BY <1>3
<1>9. FolderTypeOK'
  <2>1. stands' \in [Processes -> Stands]
        BY <1>1, <1>3 DEF FolderTypeOK, Stands, Using
  <2>2. has' \in [Processes -> [lock : FileNames \cup {Absent}, db : DOMAIN rows' \cup {Absent},
                                got : Rows \cup {Absent}]]
        BY <1>5, <1>6 DEF HasType
  <2>. QED BY <1>1, <1>5, <1>8, <2>1, <2>2 DEF FolderTypeOK
<1>10. \A t \in Schemas, f \in DOMAIN rows : Linked(t, f)' <=> Linked(t, f)
      BY <1>5, <1>8 DEF Linked
<1>11. NamesLead'
  <2>1. \A q \in Processes : stands'[q] \in Using \cup {"tables"} => has'[q].db # Absent
        BY <1>1, <1>6, <1>7, <1>8 DEF NamesLead
  <2>2. \A q \in Processes : stands'[q] \in Using => rows'[has'[q].db].tables
    <3> SUFFICES ASSUME NEW q \in Processes, stands'[q] \in Using PROVE rows'[has'[q].db].tables
        OBVIOUS
    <3>1. CASE q = p
          BY <1>2, <1>4, <1>5, <1>6, <3>1
    <3>2. CASE q # p
      <4>1. rows[has[q].db].tables /\ has[q].db \in DOMAIN rows \cup {Absent} /\ has[q].db # Absent
            BY <1>1, <1>7, <3>2 DEF NamesLead, FolderTypeOK
      <4>. QED BY <1>5, <1>6, <4>1
    <3>. QED BY <3>1, <3>2
  <2>. QED BY <1>1, <1>5, <1>8, <2>1, <2>2 DEF NamesLead
<1>12. OneSchema'
  <2>1. \A f \in DOMAIN rows : Users(f)' = Users(f)
        BY <1>6, <1>8, <1>10 DEF Users
  <2> SUFFICES ASSUME NEW f \in DOMAIN rows', NEW u \in Users(f)'
               PROVE  Users(f)' = {u} /\ (rows'[f].row # Absent => rows'[f].row.of = u)
      BY DEF OneSchema
  <2>2. f \in DOMAIN rows /\ u \in Users(f) /\ rows'[f].row = rows[f].row
        BY <1>5, <2>1
  <2>3. Users(f) = {u} /\ (rows[f].row # Absent => rows[f].row.of = u)
        BY <1>1, <2>2 DEF OneSchema
  <2>. QED BY <2>1, <2>2, <2>3
<1>13. LocksHold'
  <2>1. \A q \in Processes : stands'[q] \in {"lock", "open", "tables", "cleaning"} =>
          stands'[q] = stands[q] /\ has'[q] .lock = has[q].lock /\ has'[q].db = has[q].db
        BY <1>6, <1>7
  <2>2. \A c \in Processes : /\ stands[c] \in {"cleaning", "ended", "cut"} => stands'[c] = stands[c]
                             /\ stands'[c] # "ended" => stands[c] # "ended"
        BY <1>7, <1>8
  <2>. QED BY <1>1, <1>8, <2>1, <2>2 DEF LocksHold
<1>14. ArchivesNamed'
  <2>1. \A q \in Processes : stands[q] \in Wrote => stands'[q] = stands[q]
        BY <1>7, <1>8 DEF Wrote
  <2>2. \A f \in DOMAIN rows' : f \in DOMAIN rows /\ rows'[f].row = rows[f].row
        BY <1>5
  <2>3. \A f \in DOMAIN rows' : rows'[f].row # Absent =>
          /\ rows'[f].row.archive \in Processes =>
               /\ stands'[rows'[f].row.archive] \in Wrote \ {"replace", "put"}
               /\ \A g \in DOMAIN rows' :
                    rows'[g].row # Absent /\ rows'[g].row.archive = rows'[f].row.archive => g = f
          /\ rows'[f].row.archive \notin Processes => rows'[f].row.archive = Earlier[rows'[f].row.of]
        BY <1>1, <2>1, <2>2 DEF ArchivesNamed
  <2>4. /\ \A t \in Schemas : versions[t] # Absent =>
             \A q \in Processes : q \in versions[t].archives => stands'[q] \in Wrote
        /\ \A c, q \in Processes : cleans[c] # Absent /\ q \in cleans[c] => stands'[q] \in Wrote
        /\ \A q \in Processes : q \in gone => stands'[q] \in Wrote
        BY <1>1, <2>1 DEF ArchivesNamed
  <2>. QED BY <1>8, <2>3, <2>4 DEF ArchivesNamed
<1>15. \A q \in Processes : /\ stands'[q] \in Puts => stands[q] \in Puts /\ has'[q].db = has[q].db
                            /\ stands[q] = "put" => stands'[q] = "put" /\ has'[q].db = has[q].db
                            /\ stands[q] = "cut" => stands'[q] = "cut"
      BY <1>6, <1>7, <1>8 DEF Puts
<1>16. GoneIsGone'
      BY <1>1, <1>5, <1>8, <1>10, <1>15 DEF GoneIsGone, Puts
<1>17. Cut' <=> Cut
      BY <1>8 DEF Cut, CleanCut
<1>18. ArchivesThere'
  <2>1. \A t \in Schemas : \A f \in DOMAIN rows' : Linked(t, f)' =>
          /\ f \in DOMAIN rows /\ Linked(t, f) /\ rows'[f].row = rows[f].row
          /\ versions'[t].archives = versions[t].archives
        BY <1>5, <1>8, <1>10
  <2>. QED BY <1>1, <1>8, <1>15, <1>17, <2>1, ArchivesStay
<1>. QED BY <1>9, <1>11, <1>12, <1>13, <1>14, <1>16, <1>18 DEF FolderIInv

(* A process that writes its archive, or removes the one it replaces: only *)
(* the archives of its schema's folder change.                             *)
Rearchived(p, s, from, to, kept) ==
  /\ s = schema[p] /\ s \in Schemas /\ stands[p] = from
  /\ versions[s] # Absent => kept \in SUBSET Archives
  /\ stands' = [stands EXCEPT ![p] = to]
  /\ versions' = [t \in Schemas |-> IF t = s /\ versions[t] # Absent
                                      THEN [versions[t] EXCEPT !.archives = kept] ELSE versions[t]]
  /\ UNCHANGED <<schema, rows, has, status, cleans, gone>>

LEMMA RearchivedStep ==
  ASSUME FolderConstants, FolderIInv, NEW p \in Processes, NEW s, NEW from, NEW to, NEW kept,
         Rearchived(p, s, from, to, kept),
         (from = "archive" /\ to = "replace") \/ (from = "replace" /\ to = "put"),
         versions[s] # Absent => kept \subseteq versions[s].archives \cup {p}
  PROVE  /\ FolderTypeOK' /\ NamesLead' /\ OneSchema' /\ LocksHold' /\ ArchivesNamed' /\ GoneIsGone'
         /\ Cut' <=> Cut
         /\ \A t \in Schemas, f \in DOMAIN rows : Linked(t, f)' <=> Linked(t, f)
         /\ \A t \in Schemas : versions[t] # Absent =>
              versions'[t].archives = IF t = s THEN kept ELSE versions[t].archives
         /\ \A q \in Processes : stands'[q] = IF q = p THEN to ELSE stands[q]
<1>1. /\ FolderTypeOK /\ NamesLead /\ OneSchema /\ LocksHold /\ ArchivesNamed
      /\ GoneIsGone /\ ArchivesThere
      BY DEF FolderIInv
<1>2. /\ versions' \in [Schemas -> Folders \cup {Absent}]
      /\ \A t \in Schemas : /\ versions'[t] # Absent <=> versions[t] # Absent
                            /\ versions[t] # Absent =>
                                 /\ versions'[t].lock = versions[t].lock
                                 /\ versions'[t].db = versions[t].db
                                 /\ versions'[t].archives = IF t = s THEN kept ELSE versions[t].archives
  <2>1. \A t \in Schemas : versions[t] \in Folders \cup {Absent}
        BY <1>1 DEF FolderTypeOK
  <2>2. \A v \in Folders : kept \in SUBSET Archives =>
          /\ [v EXCEPT !.archives = kept] \in Folders
          /\ [v EXCEPT !.archives = kept].lock = v.lock
          /\ [v EXCEPT !.archives = kept].db = v.db
          /\ [v EXCEPT !.archives = kept].archives = kept
        BY DEF Folders
  <2>. QED BY <2>1, <2>2, FolderTypes DEF Rearchived
<1>3. \A q \in Processes : stands'[q] = IF q = p THEN to ELSE stands[q]
      BY <1>1 DEF FolderTypeOK, Rearchived
<1>4. /\ stands[p] = from /\ UNCHANGED schema /\ UNCHANGED status /\ UNCHANGED cleans /\ UNCHANGED gone
      /\ UNCHANGED rows /\ UNCHANGED has /\ s = schema[p]
      BY DEF Rearchived
<1>5. FolderTypeOK'
  <2>1. stands' \in [Processes -> Stands]
        BY <1>1 DEF FolderTypeOK, Stands, Using, Rearchived
  <2>. QED BY <1>1, <1>2, <1>4, <2>1 DEF FolderTypeOK
<1>6. \A t \in Schemas, f \in DOMAIN rows : Linked(t, f)' <=> Linked(t, f)
      BY <1>2, <1>4 DEF Linked
<1>7. NamesLead'
  <2>1. \A q \in Processes : stands'[q] \in Using => stands[q] \in Using
        BY <1>3, <1>4 DEF Using
  <2>2. \A q \in Processes : stands'[q] \in Using \cup {"tables"} => stands[q] \in Using \cup {"tables"}
        BY <1>3, <1>4 DEF Using
  <2>. QED BY <1>1, <1>2, <1>4, <2>1, <2>2 DEF NamesLead
<1>8. OneSchema'
  <2>1. \A f \in DOMAIN rows : Users(f)' = Users(f)
        BY <1>4, <1>6 DEF Users
  <2>. QED BY <1>1, <1>4, <2>1 DEF OneSchema
<1>9. LocksHold'
  <2>1. \A q \in Processes : stands'[q] \in {"lock", "open", "tables", "cleaning"} => stands'[q] = stands[q]
        BY <1>3
  <2>2. \A c \in Processes : /\ stands[c] \in {"cleaning", "ended", "cut"} => stands'[c] = stands[c]
                             /\ stands'[c] # "ended" => stands[c] # "ended"
        BY <1>3, <1>4
  <2>3. \A q \in Processes : schema[q] \in Schemas
        BY <1>1 DEF FolderTypeOK
  <2>. QED BY <1>1, <1>2, <1>4, <2>1, <2>2, <2>3 DEF LocksHold
<1>10. ArchivesNamed'
  <2>1. \A q \in Processes : stands[q] \in Wrote => stands'[q] \in Wrote
        BY <1>3, <1>4 DEF Wrote
  <2>2. stands'[p] \in Wrote
        BY <1>3 DEF Wrote
  <2>3. \A q \in Processes : stands[q] \in Wrote \ {"replace", "put"} => stands'[q] = stands[q]
        BY <1>3, <1>4 DEF Wrote
  <2>4. \A t \in Schemas : versions'[t] # Absent =>
          \A q \in Processes : q \in versions'[t].archives => stands'[q] \in Wrote
        BY <1>1, <1>2, <2>1, <2>2 DEF ArchivesNamed
  <2>5. \A f \in DOMAIN rows : rows[f].row # Absent =>
          (rows[f].row.archive \in Processes => stands'[rows[f].row.archive] \in Wrote \ {"replace", "put"})
        BY <1>1, <2>3 DEF ArchivesNamed
  <2>6. /\ \A c, q \in Processes : cleans[c] # Absent /\ q \in cleans[c] => stands'[q] \in Wrote
        /\ \A q \in Processes : q \in gone => stands'[q] \in Wrote
        BY <1>1, <2>1 DEF ArchivesNamed
  <2>. QED BY <1>1, <1>4, <2>4, <2>5, <2>6 DEF ArchivesNamed
<1>11. GoneIsGone'
  <2>1. \A q \in Processes : stands'[q] \in Puts => stands[q] \in Puts \/ (q = p /\ from = "archive")
        BY <1>3, <1>4 DEF Puts
  <2>2. from = "archive" => p \notin gone
        BY <1>1, <1>4 DEF ArchivesNamed, Wrote
  <2>. QED BY <1>1, <1>4, <1>6, <2>1, <2>2 DEF GoneIsGone, Puts
<1>12. Cut' <=> Cut
      BY <1>4 DEF Cut, CleanCut
<1>. QED BY <1>2, <1>3, <1>5, <1>6, <1>7, <1>8, <1>9, <1>10, <1>11, <1>12

LEMMA WriteArchiveStep ==
  ASSUME FolderConstants, FolderIInv, NEW p \in Processes, WriteArchive(p)
  PROVE  FolderIInv'
<1>1. /\ FolderTypeOK /\ NamesLead /\ OneSchema /\ LocksHold /\ ArchivesNamed
      /\ GoneIsGone /\ ArchivesThere
      BY DEF FolderIInv
<1>2. PICK s : s = schema[p]
      OBVIOUS
<1>3. /\ s \in Schemas /\ stands[p] = "archive" /\ cleans[p] = Absent /\ status[p] = Absent
      /\ UNCHANGED <<schema, rows, has, status, cleans, gone>>
      BY <1>1, <1>2, OnlyCleans DEF WriteArchive, chosen, noClean, FolderTypeOK
<1>4. CASE versions[s] = Absent
  <2>1. To(p, "failed") /\ UNCHANGED versions
        BY <1>2, <1>4 DEF WriteArchive, Here, CachePath
  <2>2. Quiet(p, "failed", has[p], status[p])
        BY <1>3 DEF Quiet, Using, Wrote
  <2>. QED BY <1>3, <2>1, <2>2, StaysQuietly DEF Stands
<1>5. CASE versions[s] # Absent
  <2>1. PICK kept : kept = versions[s].archives \cup {p}
        OBVIOUS
  <2>2. versions[s].archives \in SUBSET Archives
        BY <1>3, <1>5, FolderTypes DEF Folders
  <2>3. Rearchived(p, s, "archive", "replace", kept)
    <3>1. stands' = [stands EXCEPT ![p] = "replace"]
          BY <1>2, <1>5 DEF WriteArchive, Here, CachePath, To
    <3>2. versions' = [versions EXCEPT ![s] = [versions[s] EXCEPT !.archives = kept]]
          BY <1>2, <1>5, <2>1 DEF WriteArchive, Here, CachePath, InFolder
    <3>3. versions = [t \in Schemas |-> versions[t]]
          BY <1>1 DEF FolderTypeOK
    <3>4. versions' = [t \in Schemas |-> IF t = s /\ versions[t] # Absent
                                           THEN [versions[t] EXCEPT !.archives = kept] ELSE versions[t]]
          BY <1>3, <1>5, <3>2, <3>3
    <3>. QED BY <1>2, <1>3, <2>1, <2>2, <3>1, <3>4 DEF Rearchived, Archives
  <2>4. /\ FolderTypeOK' /\ NamesLead' /\ OneSchema' /\ LocksHold' /\ ArchivesNamed' /\ GoneIsGone'
        /\ Cut' <=> Cut
        /\ \A t \in Schemas, f \in DOMAIN rows : Linked(t, f)' <=> Linked(t, f)
        /\ \A t \in Schemas : versions[t] # Absent =>
             versions'[t].archives = IF t = s THEN kept ELSE versions[t].archives
        /\ \A q \in Processes : stands'[q] = IF q = p THEN "replace" ELSE stands[q]
    <3>1. versions[s] # Absent => kept \subseteq versions[s].archives \cup {p}
          BY <2>1
    <3>. QED BY <2>3, <3>1, RearchivedStep
  <2>5. ArchivesThere'
    <3> SUFFICES ASSUME NEW t \in Schemas, NEW f \in DOMAIN rows, Linked(t, f)
                 PROVE  /\ \A q \in Processes : has[q].db = f /\ stands'[q] \in Puts =>
                             q \in versions'[t].archives \/ Cut'
                        /\ rows[f].row # Absent =>
                             \/ rows[f].row.archive \in versions'[t].archives \cup {Earlier[t]}
                             \/ \E q \in Processes : \/ stands'[q] = "put" /\ has[q].db = f
                                                     \/ stands'[q] = "cut" /\ schema[q] = t
                             \/ Cut'
        BY <1>3, <2>4 DEF ArchivesThere, Puts
    <3>1. /\ \A q \in Processes : has[q].db = f /\ stands[q] \in Puts => q \in versions[t].archives \/ Cut
          /\ rows[f].row # Absent =>
               \/ rows[f].row.archive \in versions[t].archives \cup {Earlier[t]}
               \/ \E q \in Processes : \/ stands[q] = "put" /\ has[q].db = f
                                       \/ stands[q] = "cut" /\ schema[q] = t
               \/ Cut
          BY <1>1 DEF ArchivesThere, Puts
    <3>2. versions[t].archives \subseteq versions'[t].archives
          BY <2>1, <2>4 DEF Linked
    <3>3. has[p].db = f => t = s
          BY <1>1, <1>2, <1>3 DEF OneSchema, Users
    <3>4. has[p].db = f => p \in versions'[t].archives
          BY <2>1, <2>4, <3>3 DEF Linked
    <3>5. \A q \in Processes : stands[q] \in {"put", "cut"} => stands'[q] = stands[q]
          BY <1>3, <2>4
    <3>. QED BY <2>4, <3>1, <3>2, <3>4, <3>5
  <2>. QED BY <2>4, <2>5 DEF FolderIInv
<1>. QED BY <1>4, <1>5

LEMMA ReplaceStep ==
  ASSUME FolderConstants, FolderIInv, NEW p \in Processes, Replace(p)
  PROVE  FolderIInv'
<1>1. /\ FolderTypeOK /\ NamesLead /\ OneSchema /\ LocksHold /\ ArchivesNamed
      /\ GoneIsGone /\ ArchivesThere
      BY DEF FolderIInv
<1>2. PICK s, d, row : s = schema[p] /\ d = has[p].db /\ row = rows[d].row
      OBVIOUS
<1>3. /\ s \in Schemas /\ stands[p] = "replace" /\ stands' = [stands EXCEPT ![p] = "put"]
      /\ UNCHANGED <<schema, rows, has, status, cleans, gone>>
      BY <1>1, <1>2 DEF Replace, To, chosen, noClean, FolderTypeOK
<1>4. d \in DOMAIN rows
      BY <1>1, <1>2, <1>3 DEF FolderTypeOK, NamesLead, Using
<1>5. PICK kept : kept = IF row # Absent THEN versions[s].archives \ {row.archive} ELSE versions[s].archives
      OBVIOUS
<1>6. versions[s] # Absent => versions[s].archives \in SUBSET Archives
      BY <1>3, FolderTypes DEF Folders
<1>7. Rearchived(p, s, "replace", "put", kept)
  <2>1. versions = [t \in Schemas |-> versions[t]]
        BY <1>1 DEF FolderTypeOK
  <2>2. versions' = IF versions[s] # Absent /\ row # Absent
                      THEN [versions EXCEPT ![s] = [versions[s] EXCEPT !.archives = kept]] ELSE versions
        BY <1>2, <1>5 DEF Replace, Here, CachePath, InFolder
  <2>3. versions[s] # Absent /\ row = Absent => [versions[s] EXCEPT !.archives = kept] = versions[s]
        BY <1>3, <1>5, FolderTypes DEF Folders
  <2>4. versions' = [t \in Schemas |-> IF t = s /\ versions[t] # Absent
                                         THEN [versions[t] EXCEPT !.archives = kept] ELSE versions[t]]
        BY <1>3, <2>1, <2>2, <2>3
  <2>. QED BY <1>2, <1>3, <1>5, <1>6, <2>4 DEF Rearchived
<1>8. /\ FolderTypeOK' /\ NamesLead' /\ OneSchema' /\ LocksHold' /\ ArchivesNamed' /\ GoneIsGone'
      /\ Cut' <=> Cut
      /\ \A t \in Schemas, f \in DOMAIN rows : Linked(t, f)' <=> Linked(t, f)
      /\ \A t \in Schemas : versions[t] # Absent =>
           versions'[t].archives = IF t = s THEN kept ELSE versions[t].archives
      /\ \A q \in Processes : stands'[q] = IF q = p THEN "put" ELSE stands[q]
  <2>1. versions[s] # Absent => kept \subseteq versions[s].archives \cup {p}
        BY <1>5
  <2>. QED BY <1>7, <2>1, RearchivedStep
<1>9. ArchivesThere'
  <2> SUFFICES ASSUME NEW t \in Schemas, NEW f \in DOMAIN rows, Linked(t, f)
               PROVE  /\ \A q \in Processes : has[q].db = f /\ stands'[q] \in Puts =>
                           q \in versions'[t].archives \/ Cut'
                      /\ rows[f].row # Absent =>
                           \/ rows[f].row.archive \in versions'[t].archives \cup {Earlier[t]}
                           \/ \E q \in Processes : \/ stands'[q] = "put" /\ has[q].db = f
                                                   \/ stands'[q] = "cut" /\ schema[q] = t
                           \/ Cut'
      BY <1>3, <1>8 DEF ArchivesThere, Puts
  <2>1. /\ \A q \in Processes : has[q].db = f /\ stands[q] \in Puts => q \in versions[t].archives \/ Cut
        /\ rows[f].row # Absent =>
             \/ rows[f].row.archive \in versions[t].archives \cup {Earlier[t]}
             \/ \E q \in Processes : \/ stands[q] = "put" /\ has[q].db = f
                                     \/ stands[q] = "cut" /\ schema[q] = t
             \/ Cut
        BY <1>1 DEF ArchivesThere, Puts
  <2>2. /\ versions[t].archives \ {row.archive} \subseteq versions'[t].archives
        /\ row = Absent => versions[t].archives \subseteq versions'[t].archives
        BY <1>5, <1>8 DEF Linked
  <2>3. \A q \in Processes : stands'[q] \in Puts => stands[q] \in Puts
        BY <1>3, <1>8 DEF Puts
  <2>4. \A q \in Processes : row # Absent /\ stands[q] \in Puts => q # row.archive
        BY <1>1, <1>2, <1>4 DEF ArchivesNamed, Puts
  <2>5. \A q \in Processes : has[q].db = f /\ stands'[q] \in Puts => q \in versions'[t].archives \/ Cut'
        BY <1>8, <2>1, <2>2, <2>3, <2>4
  <2>6. \A q \in Processes : stands[q] \in {"put", "cut"} => stands'[q] = stands[q]
        BY <1>3, <1>8
  <2>7. ASSUME rows[f].row # Absent, row # Absent, rows[f].row.archive = row.archive
        PROVE  row.archive = Earlier[t] \/ (stands'[p] = "put" /\ has[p].db = f)
    <3>1. CASE row.archive \in Processes
      <4>1. d = f
            BY <1>1, <1>2, <1>4, <2>7, <3>1 DEF ArchivesNamed
      <4>. QED BY <1>2, <1>8, <4>1
    <3>2. CASE row.archive \notin Processes
      <4>1. rows[f].row.archive = Earlier[rows[f].row.of]
            BY <1>1, <2>7, <3>2 DEF ArchivesNamed
      <4>2. rows[f].row.of = t
            BY <1>1, <2>7 DEF OneSchema, Users
      <4>. QED BY <2>7, <4>1, <4>2
    <3>. QED BY <3>1, <3>2
  <2>8. rows[f].row # Absent =>
          \/ rows[f].row.archive \in versions'[t].archives \cup {Earlier[t]}
          \/ \E q \in Processes : \/ stands'[q] = "put" /\ has[q].db = f
                                  \/ stands'[q] = "cut" /\ schema[q] = t
          \/ Cut'
    <3> SUFFICES ASSUME rows[f].row # Absent, rows[f].row.archive \in versions[t].archives,
                        rows[f].row.archive \notin versions'[t].archives
                 PROVE  \/ rows[f].row.archive = Earlier[t]
                        \/ stands'[p] = "put" /\ has[p].db = f
        BY <1>8, <2>1, <2>6
    <3>1. row # Absent /\ rows[f].row.archive = row.archive
          BY <2>2
    <3>. QED BY <2>7, <3>1
  <2>. QED BY <2>5, <2>8
<1>. QED BY <1>8, <1>9 DEF FolderIInv

LEMMA PutStep ==
  ASSUME FolderConstants, FolderIInv, NEW p \in Processes, Put(p)
  PROVE  FolderIInv'
<1>1. /\ FolderTypeOK /\ NamesLead /\ OneSchema /\ LocksHold /\ ArchivesNamed
      /\ GoneIsGone /\ ArchivesThere
      BY DEF FolderIInv
<1>2. PICK s, d : s = schema[p] /\ d = has[p].db
      OBVIOUS
<1>3. /\ s \in Schemas /\ stands[p] = "put" /\ status[p] = Absent /\ cleans[p] = Absent
      /\ UNCHANGED schema /\ UNCHANGED versions /\ UNCHANGED has /\ UNCHANGED status
      /\ UNCHANGED cleans /\ UNCHANGED gone
      BY <1>1, <1>2, OnlyCleans DEF Put, chosen, noClean, FolderTypeOK
<1>4. d \in DOMAIN rows
      BY <1>1, <1>2, <1>3 DEF FolderTypeOK, NamesLead, Using
<1>5. CASE (Here(p) # Absent => Here(p).db # has[p].db) /\ UNCHANGED rows /\ To(p, "failed")
  <2>1. Quiet(p, "failed", has[p], status[p])
        BY <1>3, <1>5 DEF Quiet, Using, Wrote, Linked, Here, CachePath
  <2>. QED BY <1>3, <1>5, <2>1, StaysQuietly DEF Stands
<1>6. CASE /\ rows' = [rows EXCEPT ![has[p].db].row = [archive |-> p, of |-> schema[p]]]
           /\ To(p, "succeeded")
  <2>1. PICK row : row = [archive |-> p, of |-> s]
        OBVIOUS
  <2>2. row \in Rows /\ row.archive = p /\ row.of = s
        BY <1>3, <2>1 DEF Rows, Archives
  <2>3. /\ DOMAIN rows' = DOMAIN rows
        /\ rows' \in [DOMAIN rows -> [tables : BOOLEAN, row : Rows \cup {Absent}]]
        /\ \A f \in DOMAIN rows : /\ rows'[f].tables = rows[f].tables
                                  /\ rows'[f].row = IF f = d THEN row ELSE rows[f].row
    <3>1. \A f \in DOMAIN rows : rows[f] \in [tables : BOOLEAN, row : Rows \cup {Absent}]
          BY <1>1 DEF FolderTypeOK
    <3>2. rows' = [f \in DOMAIN rows |-> IF f = d THEN [rows[f] EXCEPT !.row = row] ELSE rows[f]]
          BY <1>1, <1>2, <1>4, <1>6, <2>1 DEF FolderTypeOK
    <3>3. \A r \in [tables : BOOLEAN, row : Rows \cup {Absent}] :
            /\ [r EXCEPT !.row = row] \in [tables : BOOLEAN, row : Rows \cup {Absent}]
            /\ [r EXCEPT !.row = row].tables = r.tables /\ [r EXCEPT !.row = row].row = row
          BY <2>2
    <3>. QED BY <3>1, <3>2, <3>3
  <2>4. \A q \in Processes : stands'[q] = IF q = p THEN "succeeded" ELSE stands[q]
        BY <1>1, <1>6 DEF FolderTypeOK, To
  <2>5. FolderTypeOK'
    <3>1. stands' \in [Processes -> Stands]
          BY <1>1, <1>6 DEF FolderTypeOK, Stands, Using, To
    <3>. QED BY <1>1, <1>3, <2>3, <3>1 DEF FolderTypeOK
  <2>6. \A t \in Schemas, f \in DOMAIN rows : Linked(t, f)' <=> Linked(t, f)
        BY <1>3, <2>3 DEF Linked
  <2>7. NamesLead'
    <3>1. \A q \in Processes : stands'[q] \in Using => stands[q] \in Using
          BY <2>4 DEF Using
    <3>2. \A q \in Processes : stands'[q] \in Using \cup {"tables"} => stands[q] \in Using \cup {"tables"}
          BY <2>4 DEF Using
    <3>3. \A q \in Processes : stands'[q] \in Using => rows'[has[q].db].tables
      <4> SUFFICES ASSUME NEW q \in Processes, stands'[q] \in Using PROVE rows'[has[q].db].tables
          OBVIOUS
      <4>1. rows[has[q].db].tables /\ has[q].db \in DOMAIN rows
            BY <1>1, <3>1 DEF NamesLead, FolderTypeOK
      <4>. QED BY <2>3, <4>1
    <3>. QED BY <1>1, <1>3, <2>3, <3>2, <3>3 DEF NamesLead
  <2>8. OneSchema'
    <3>1. \A f \in DOMAIN rows : Users(f)' = Users(f)
          BY <1>3, <2>6 DEF Users
    <3> SUFFICES ASSUME NEW f \in DOMAIN rows', NEW u \in Users(f)'
                 PROVE  Users(f)' = {u} /\ (rows'[f].row # Absent => rows'[f].row.of = u)
        BY DEF OneSchema
    <3>2. f \in DOMAIN rows /\ u \in Users(f) /\ rows'[f].row = IF f = d THEN row ELSE rows[f].row
          BY <2>3, <3>1
    <3>3. Users(f) = {u} /\ (rows[f].row # Absent => rows[f].row.of = u)
          BY <1>1, <3>2 DEF OneSchema
    <3>4. s \in Users(d)
          BY <1>2 DEF Users
    <3>. QED BY <2>2, <3>1, <3>2, <3>3, <3>4
  <2>9. LocksHold'
    <3>1. \A q \in Processes : stands'[q] \in {"lock", "open", "tables", "cleaning"} => stands'[q] = stands[q]
          BY <2>4
    <3>2. \A c \in Processes : /\ stands[c] \in {"cleaning", "ended", "cut"} => stands'[c] = stands[c]
                               /\ stands'[c] # "ended" => stands[c] # "ended"
          BY <1>3, <2>4
    <3>. QED BY <1>1, <1>3, <3>1, <3>2 DEF LocksHold
  <2>10. ArchivesNamed'
    <3>1. \A q \in Processes : stands[q] \in Wrote => stands'[q] \in Wrote
          BY <2>4 DEF Wrote
    <3>2. \A q \in Processes : stands[q] \in Wrote \ {"replace", "put"} => stands'[q] = stands[q]
          BY <1>3, <2>4
    <3>3. \A f \in DOMAIN rows : rows[f].row # Absent => rows[f].row.archive # p
          BY <1>1, <1>3 DEF ArchivesNamed
    <3>4. \A f \in DOMAIN rows' : rows'[f].row # Absent =>
            /\ rows'[f].row.archive \in Processes =>
                 /\ stands'[rows'[f].row.archive] \in Wrote \ {"replace", "put"}
                 /\ \A g \in DOMAIN rows' :
                      rows'[g].row # Absent /\ rows'[g].row.archive = rows'[f].row.archive => g = f
            /\ rows'[f].row.archive \notin Processes => rows'[f].row.archive = Earlier[rows'[f].row.of]
      <4> SUFFICES ASSUME NEW f \in DOMAIN rows, rows'[f].row # Absent
                   PROVE  /\ rows'[f].row.archive \in Processes =>
                               /\ stands'[rows'[f].row.archive] \in Wrote \ {"replace", "put"}
                               /\ \A g \in DOMAIN rows :
                                    rows'[g].row # Absent /\ rows'[g].row.archive = rows'[f].row.archive
                                      => g = f
                          /\ rows'[f].row.archive \notin Processes =>
                               rows'[f].row.archive = Earlier[rows'[f].row.of]
          BY <2>3
      <4>1. CASE f = d
        <5>1. rows'[f].row = row
              BY <2>3, <4>1
        <5>2. stands'[p] \in Wrote \ {"replace", "put"}
              BY <2>4 DEF Wrote
        <5>3. \A g \in DOMAIN rows : rows'[g].row # Absent /\ rows'[g].row.archive = p => g = d
              BY <2>3, <3>3
        <5>. QED BY <2>2, <4>1, <5>1, <5>2, <5>3
      <4>2. CASE f # d
        <5>1. rows'[f].row = rows[f].row
              BY <2>3, <4>2
        <5>2. rows[f].row.archive # p
              BY <3>3, <5>1
        <5>3. \A g \in DOMAIN rows : rows'[g].row # Absent /\ rows'[g].row.archive = rows[f].row.archive =>
                g # d /\ rows'[g].row = rows[g].row
              BY <2>2, <2>3, <5>2
        <5>. QED BY <1>1, <3>2, <5>1, <5>3 DEF ArchivesNamed
      <4>. QED BY <4>1, <4>2
    <3>5. /\ \A t \in Schemas : versions[t] # Absent =>
               \A q \in Processes : q \in versions[t].archives => stands'[q] \in Wrote
          /\ \A c, q \in Processes : cleans[c] # Absent /\ q \in cleans[c] => stands'[q] \in Wrote
          /\ \A q \in Processes : q \in gone => stands'[q] \in Wrote
          BY <1>1, <3>1 DEF ArchivesNamed
    <3>. QED BY <1>3, <3>4, <3>5 DEF ArchivesNamed
  <2>11. \A q \in Processes : stands'[q] \in Puts => stands[q] \in Puts /\ q # p
        BY <2>4 DEF Puts
  <2>12. GoneIsGone'
    <3> SUFFICES ASSUME NEW t \in Schemas, NEW f \in DOMAIN rows, Linked(t, f)
                 PROVE  /\ rows'[f].row # Absent => rows'[f].row.archive \notin gone
                        /\ \A q \in Processes : has[q].db = f /\ stands'[q] \in Puts => q \notin gone
        BY <1>3, <2>3, <2>6 DEF GoneIsGone, Puts
    <3>1. /\ rows[f].row # Absent => rows[f].row.archive \notin gone
          /\ \A q \in Processes : has[q].db = f /\ stands[q] \in Puts => q \notin gone
          BY <1>1 DEF GoneIsGone, Puts
    <3>2. f = d => p \notin gone
          BY <1>2, <1>3, <3>1 DEF Puts
    <3>. QED BY <2>2, <2>3, <2>11, <3>1, <3>2
  <2>13. Cut' <=> Cut
        BY <1>3 DEF Cut, CleanCut
  <2>14. ArchivesThere'
    <3> SUFFICES ASSUME NEW t \in Schemas, NEW f \in DOMAIN rows, Linked(t, f)
                 PROVE  /\ \A q \in Processes : has[q].db = f /\ stands'[q] \in Puts =>
                             q \in versions[t].archives \/ Cut'
                        /\ rows'[f].row # Absent =>
                             \/ rows'[f].row.archive \in versions[t].archives \cup {Earlier[t]}
                             \/ \E q \in Processes : \/ stands'[q] = "put" /\ has[q].db = f
                                                     \/ stands'[q] = "cut" /\ schema[q] = t
                             \/ Cut'
        BY <1>3, <2>3, <2>6 DEF ArchivesThere, Puts
    <3>1. /\ \A q \in Processes : has[q].db = f /\ stands[q] \in Puts => q \in versions[t].archives \/ Cut
          /\ rows[f].row # Absent =>
               \/ rows[f].row.archive \in versions[t].archives \cup {Earlier[t]}
               \/ \E q \in Processes : \/ stands[q] = "put" /\ has[q].db = f
                                       \/ stands[q] = "cut" /\ schema[q] = t
               \/ Cut
          BY <1>1 DEF ArchivesThere, Puts
    <3>2. f = d => p \in versions[t].archives \/ Cut
          BY <1>2, <1>3, <3>1 DEF Puts
    <3>3. \A q \in Processes : q # p => stands'[q] = stands[q]
          BY <2>4
    <3>4. f # d => \A q \in Processes : (stands[q] = "put" /\ has[q].db = f) \/ stands[q] = "cut" => q # p
          BY <1>2, <1>3
    <3>5. CASE f = d
          BY <2>2, <2>3, <2>11, <2>13, <3>1, <3>2, <3>5
    <3>6. CASE f # d
      <4>1. rows'[f].row = rows[f].row
            BY <2>3, <3>6
      <4>. QED BY <2>11, <2>13, <3>1, <3>3, <3>4, <3>6, <4>1
    <3>. QED BY <3>5, <3>6
  <2>. QED BY <2>5, <2>7, <2>8, <2>9, <2>10, <2>12, <2>14 DEF FolderIInv
<1>. QED BY <1>5, <1>6 DEF Put

-----------------------------------------------------------------------------
(* Cleaning.                                                               *)
LEMMA EntriesWritten ==
  ASSUME FolderConstants, FolderIInv
  PROVE  Entries \subseteq Archives /\ \A q \in Processes : q \in Entries => stands[q] \in Wrote
<1>1. FolderTypeOK /\ NamesLead /\ ArchivesNamed
      BY DEF FolderIInv
<1> SUFFICES ASSUME NEW a \in Entries PROVE a \in Archives /\ (a \in Processes => stands[a] \in Wrote)
    OBVIOUS
<1>2. CASE \E t \in Schemas : versions[t] # Absent /\ a \in versions[t].archives
  <2>1. PICK t \in Schemas : versions[t] # Absent /\ a \in versions[t].archives
        BY <1>2
  <2>2. versions[t].archives \subseteq Archives
        BY <2>1, FolderTypes DEF Folders
  <2>. QED BY <1>1, <2>1, <2>2 DEF ArchivesNamed
<1>3. CASE \E f \in DOMAIN rows : rows[f].row # Absent /\ a = rows[f].row.archive
  <2>1. PICK f \in DOMAIN rows : rows[f].row # Absent /\ a = rows[f].row.archive
        BY <1>3
  <2>2. rows[f].row \in Rows
        BY <1>1, <2>1 DEF FolderTypeOK
  <2>. QED BY <1>1, <2>1, <2>2 DEF ArchivesNamed, Rows
<1>. QED BY <1>2, <1>3 DEF Entries

LEMMA BeginCleanStep ==
  ASSUME FolderConstants, FolderIInv, NEW p \in Processes, BeginClean(p)
  PROVE  FolderIInv'
<1>1. /\ FolderTypeOK /\ NamesLead /\ OneSchema /\ LocksHold /\ ArchivesNamed
      /\ GoneIsGone /\ ArchivesThere
      BY DEF FolderIInv
<1>2. /\ stands[p] = "clean" /\ cleans[p] = Absent /\ status[p] = Absent
      /\ UNCHANGED schema /\ UNCHANGED versions /\ UNCHANGED rows /\ UNCHANGED gone
      BY OnlyCleans DEF BeginClean, chosen
<1>3. CASE ~root
  <2>1. SameFolders
        BY <1>1, <1>2 DEF SameFolders, FolderTypeOK
  <2>2. Ends(p, 0) /\ UNCHANGED cleans
        BY <1>3 DEF BeginClean
  <2>. QED BY <1>2, <2>1, <2>2, EndsQuietly
<1>4. CASE root
  <2>1. PICK all : all = Entries
        OBVIOUS
  <2>2. /\ cleans' = [cleans EXCEPT ![p] = all] /\ stands' = [stands EXCEPT ![p] = "cleaning"]
        /\ UNCHANGED has /\ UNCHANGED status
        BY <1>4, <2>1 DEF BeginClean, To
  <2>3. /\ all \in SUBSET Archives /\ all # Absent
        /\ \A q \in Processes : q \in all => stands[q] \in Wrote
    <3>1. all \in SUBSET Archives /\ \A q \in Processes : q \in all => stands[q] \in Wrote
          BY <2>1, EntriesWritten
    <3>2. Absent \notin SUBSET Archives
          BY DEF FolderConstants
    <3>. QED BY <3>1, <3>2
  <2>4. \A q \in Processes : /\ stands'[q] = IF q = p THEN "cleaning" ELSE stands[q]
                             /\ cleans'[q] = IF q = p THEN all ELSE cleans[q]
        BY <1>1, <2>2 DEF FolderTypeOK
  <2>5. FolderTypeOK'
    <3>1. stands' \in [Processes -> Stands]
          BY <1>1, <2>2 DEF FolderTypeOK, Stands
    <3>2. cleans' \in [Processes -> (SUBSET Archives) \cup {Absent}]
          BY <1>1, <2>2, <2>3 DEF FolderTypeOK
    <3>. QED BY <1>1, <1>2, <2>2, <3>1, <3>2 DEF FolderTypeOK
  <2>6. NamesLead'
        BY <1>1, <1>2, <2>2, <2>4 DEF NamesLead, Using
  <2>7. \A t \in Schemas, f \in DOMAIN rows : Linked(t, f)' <=> Linked(t, f)
        BY <1>2 DEF Linked
  <2>8. OneSchema'
    <3>1. \A f \in DOMAIN rows : Users(f)' = Users(f)
          BY <1>2, <2>2, <2>7 DEF Users
    <3>. QED BY <1>1, <1>2, <3>1 DEF OneSchema
  <2>9. LocksHold'
    <3>1. ~\A c \in Processes : cleans'[c] = Absent
          BY <2>3, <2>4
    <3>2. \A q \in Processes : stands'[q] \in {"lock", "open", "tables"} => stands'[q] = stands[q]
          BY <2>4
    <3>3. \A c \in Processes : cleans'[c] # Absent => stands'[c] \in {"cleaning", "ended", "cut"}
          BY <1>1, <2>4 DEF LocksHold
    <3>4. \A c \in Processes : /\ stands'[c] = "cleaning" => cleans'[c] # Absent
                               /\ stands'[c] # "ended" => status[c] = Absent
          BY <1>1, <1>2, <2>3, <2>4 DEF LocksHold
    <3>. QED BY <1>1, <2>2, <3>1, <3>2, <3>3, <3>4 DEF LocksHold
  <2>10. ArchivesNamed'
    <3>1. \A q \in Processes : stands[q] \in Wrote => stands'[q] = stands[q]
          BY <1>2, <2>4 DEF Wrote
    <3>2. \A c, q \in Processes : cleans'[c] # Absent /\ q \in cleans'[c] => stands'[q] \in Wrote
          BY <1>1, <2>3, <2>4, <3>1 DEF ArchivesNamed
    <3>. QED BY <1>1, <1>2, <3>1, <3>2 DEF ArchivesNamed
  <2>11. \A q \in Processes : stands'[q] \in Puts => stands'[q] = stands[q]
        BY <2>4 DEF Puts
  <2>12. GoneIsGone'
        BY <1>1, <1>2, <2>2, <2>7, <2>11 DEF GoneIsGone, Puts
  <2>13. Cut => Cut'
    <3>1. Absent # 0
          BY DEF FolderConstants
    <3>2. CleanCut(p)'
          BY <1>2, <2>2, <2>3, <2>4, <3>1 DEF CleanCut
    <3>. QED BY <3>2 DEF Cut
  <2>14. ArchivesThere'
    <3>1. \A q \in Processes : /\ stands'[q] \in Puts => stands[q] \in Puts /\ has'[q].db = has[q].db
                               /\ stands[q] = "put" => stands'[q] = "put" /\ has'[q].db = has[q].db
                               /\ stands[q] = "cut" => stands'[q] = "cut"
          BY <1>2, <2>2, <2>4, <2>11
    <3>2. \A t \in Schemas : \A f \in DOMAIN rows' : Linked(t, f)' =>
            /\ f \in DOMAIN rows /\ Linked(t, f) /\ rows'[f].row = rows[f].row
            /\ versions'[t].archives = versions[t].archives
          BY <1>2, <2>7
    <3>. QED BY <1>1, <1>2, <2>13, <3>1, <3>2, ArchivesStay
  <2>. QED BY <2>5, <2>6, <2>8, <2>9, <2>10, <2>12, <2>14 DEF FolderIInv
<1>. QED BY <1>3, <1>4

(* A file or a folder less, while somebody cleans.                         *)
LEMMA RemovalStep ==
  ASSUME FolderConstants, FolderIInv, NEW p \in Processes, stands[p] = "cleaning",
         versions' \in [Schemas -> Folders \cup {Absent}],
         \A t \in Schemas : versions'[t] # Absent =>
           /\ versions[t] # Absent /\ versions'[t].archives \subseteq versions[t].archives
           /\ versions'[t].db \in {versions[t].db, Absent},
         UNCHANGED <<schema, stands, rows, has, status, cleans, gone>>
  PROVE  FolderIInv'
<1>1. /\ FolderTypeOK /\ NamesLead /\ OneSchema /\ LocksHold /\ ArchivesNamed
      /\ GoneIsGone /\ ArchivesThere
      BY DEF FolderIInv
<1>2. /\ UNCHANGED schema /\ UNCHANGED stands /\ UNCHANGED rows /\ UNCHANGED has
      /\ UNCHANGED status /\ UNCHANGED cleans /\ UNCHANGED gone
      OBVIOUS
<1>3. cleans[p] # Absent /\ status[p] = Absent
      BY <1>1 DEF LocksHold
<1>4. \A t \in Schemas, f \in DOMAIN rows : Linked(t, f)' => Linked(t, f)
      BY <1>2, FolderTypes DEF Linked
<1>5. Cut'
  <2>1. Absent # 0
        BY DEF FolderConstants
  <2>. QED BY <1>2, <1>3, <2>1 DEF Cut, CleanCut
<1>6. FolderTypeOK'
      BY <1>1, <1>2 DEF FolderTypeOK
<1>7. NamesLead'
      BY <1>1, <1>2 DEF NamesLead
<1>8. OneSchema'
  <2>1. \A f \in DOMAIN rows : Users(f)' \subseteq Users(f)
        BY <1>2, <1>4 DEF Users
  <2>. QED BY <1>1, <1>2, <2>1 DEF OneSchema
<1>9. LocksHold'
      BY <1>1, <1>2, <1>3 DEF LocksHold
<1>10. ArchivesNamed'
      BY <1>1, <1>2 DEF ArchivesNamed
<1>11. GoneIsGone'
      BY <1>1, <1>2, <1>4 DEF GoneIsGone
<1>12. ArchivesThere'
      BY <1>2, <1>5 DEF ArchivesThere
<1>. QED BY <1>6, <1>7, <1>8, <1>9, <1>10, <1>11, <1>12 DEF FolderIInv

LEMMA CleaningStep ==
  ASSUME FolderConstants, FolderIInv, NEW p \in Processes, NEW s \in Schemas,
         RemoveFolder(p, s) \/ \E n \in Names(s) : RemoveFile(p, s, n)
  PROVE  FolderIInv'
<1>1. FolderTypeOK
      BY DEF FolderIInv
<1>2. CASE RemoveFolder(p, s)
  <2>1. stands[p] = "cleaning" /\ versions' = [versions EXCEPT ![s] = Absent]
        BY <1>2 DEF RemoveFolder
  <2>2. versions' \in [Schemas -> Folders \cup {Absent}]
        BY <1>1, <2>1 DEF FolderTypeOK
  <2>3. \A t \in Schemas : versions'[t] # Absent => versions'[t] = versions[t]
        BY <1>1, <2>1 DEF FolderTypeOK
  <2>. QED BY <1>2, <2>1, <2>2, <2>3, RemovalStep DEF RemoveFolder, chosen
<1>3. CASE \E n \in Names(s) : RemoveFile(p, s, n)
  <2>1. PICK n \in Names(s) : RemoveFile(p, s, n)
        BY <1>3
  <2>2. PICK v : v = versions[s]
        OBVIOUS
  <2>3. v # Absent /\ v \in Folders
        BY <2>1, <2>2, FolderTypes DEF Names
  <2>4. DOMAIN Empty = {"lock", "db", "archives", "summary"}
        BY DEF Empty
  <2>5. n \in {"lock", "db", "summary"} \/ (n \in v.archives /\ n \notin DOMAIN Empty)
    <3>1. n \in {"lock", "db", "summary"} \/ n \in v.archives
          BY <2>1, <2>2, <2>3 DEF Names
    <3>2. v.archives \cap DOMAIN Empty = {}
          BY <2>3 DEF Folders, FolderConstants
    <3>. QED BY <3>1, <3>2
  <2>6. PICK w : w = IF n \in DOMAIN Empty THEN [v EXCEPT ![n] = Absent]
                     ELSE [v EXCEPT !.archives = @ \ {n}]
        OBVIOUS
  <2>7. versions' = [versions EXCEPT ![s] = w] /\ stands[p] = "cleaning"
    <3>1. stands[p] = "cleaning"
          BY <2>1 DEF RemoveFile
    <3>2. CASE n \in DOMAIN Empty
      <4>1. w = [versions[s] EXCEPT ![n] = Absent]
            BY <2>2, <2>6, <3>2
      <4>2. versions' = [versions EXCEPT ![s] = [@ EXCEPT ![n] = Absent]]
            BY <2>1, <3>2 DEF RemoveFile
      <4>. QED BY <3>1, <4>1, <4>2
    <3>3. CASE n \notin DOMAIN Empty
      <4>1. w = [versions[s] EXCEPT !.archives = versions[s].archives \ {n}]
            BY <2>2, <2>6, <3>3
      <4>2. versions' = [versions EXCEPT ![s] = [@ EXCEPT !.archives = versions[s].archives \ {n}]]
            BY <2>1, <3>3 DEF RemoveFile
      <4>. QED BY <3>1, <4>1, <4>2
    <3>. QED BY <3>2, <3>3
  <2>8. w \in Folders /\ w.archives \subseteq v.archives /\ w.db \in {v.db, Absent}
    <3>1. CASE n = "lock" \/ n = "db" \/ n = "summary"
          BY <2>3, <2>4, <2>6, <3>1 DEF Folders
    <3>2. CASE n \in v.archives /\ n \notin DOMAIN Empty
          BY <2>3, <2>6, <3>2 DEF Folders
    <3>. QED BY <2>5, <3>1, <3>2
  <2>9. versions' \in [Schemas -> Folders \cup {Absent}]
        BY <1>1, <2>7, <2>8 DEF FolderTypeOK
  <2>10. \A t \in Schemas : versions'[t] = IF t = s THEN w ELSE versions[t]
        BY <1>1, <2>7 DEF FolderTypeOK
  <2>11. UNCHANGED <<schema, stands, rows, has, status, cleans, gone>>
        BY <2>1 DEF RemoveFile, chosen
  <2>12. \A t \in Schemas : versions'[t] # Absent =>
           /\ versions[t] # Absent /\ versions'[t].archives \subseteq versions[t].archives
           /\ versions'[t].db \in {versions[t].db, Absent}
        BY <2>2, <2>3, <2>8, <2>10
  <2>. QED BY <2>7, <2>9, <2>11, <2>12, RemovalStep
<1>. QED BY <1>2, <1>3

LEMMA RemoveRootStep ==
  ASSUME FolderConstants, FolderIInv, NEW p \in Processes, RemoveRoot(p)
  PROVE  FolderIInv'
<1>1. /\ FolderTypeOK /\ NamesLead /\ OneSchema /\ LocksHold /\ ArchivesNamed
      /\ GoneIsGone /\ ArchivesThere
      BY DEF FolderIInv
<1>2. /\ stands[p] = "cleaning" /\ stands' = [stands EXCEPT ![p] = "ended"]
      /\ has' = [has EXCEPT ![p] = Nothing] /\ status' = [status EXCEPT ![p] = 0]
      /\ gone' = gone \cup cleans[p]
      BY DEF RemoveRoot, Ends, To
<1>3. UNCHANGED schema /\ UNCHANGED versions /\ UNCHANGED rows /\ UNCHANGED cleans
      BY DEF RemoveRoot, chosen
<1>4. \A s \in Schemas : versions[s] = Absent
      BY DEF RemoveRoot, AllVersions
<1>5. cleans[p] # Absent
      BY <1>1, <1>2 DEF LocksHold
<1>6. Nothing \in HasType /\ Nothing.db = Absent
      BY DEF Nothing, HasType
<1>7. \A q \in Processes : /\ stands'[q] = IF q = p THEN "ended" ELSE stands[q]
                           /\ has'[q] = IF q = p THEN Nothing ELSE has[q]
                           /\ status'[q] = IF q = p THEN 0 ELSE status[q]
      BY <1>1, <1>2 DEF FolderTypeOK
<1>8. FolderTypeOK'
  <2>1. stands' \in [Processes -> Stands] /\ status' \in [Processes -> {Absent, 0, 1}]
        BY <1>1, <1>2 DEF FolderTypeOK, Stands
  <2>2. has' \in [Processes -> HasType]
        BY <1>1, <1>2, <1>6 DEF FolderTypeOK, HasType
  <2>3. gone' \subseteq Archives
        BY <1>1, <1>2, <1>5 DEF FolderTypeOK
  <2>. QED BY <1>1, <1>3, <2>1, <2>2, <2>3 DEF FolderTypeOK, HasType
<1>9. \A t \in Schemas, f \in DOMAIN rows : ~Linked(t, f)'
      BY <1>3, <1>4 DEF Linked
<1>10. NamesLead'
      BY <1>1, <1>3, <1>4, <1>7 DEF NamesLead, Using
<1>11. OneSchema'
  <2>1. Absent \notin DOMAIN rows
        BY FolderTypes
  <2>2. \A f \in DOMAIN rows : Users(f)' \subseteq Users(f)
        BY <1>3, <1>6, <1>7, <1>9, <2>1 DEF Users
  <2>. QED BY <1>1, <1>3, <2>2 DEF OneSchema
<1>12. LocksHold'
  <2>1. ~\A c \in Processes : cleans'[c] = Absent
        BY <1>3, <1>5
  <2>2. \A q \in Processes : stands'[q] \in {"lock", "open", "tables"} =>
          stands'[q] = stands[q] /\ has'[q] = has[q]
        BY <1>7
  <2>3. \A c \in Processes : cleans'[c] # Absent => stands'[c] \in {"cleaning", "ended", "cut"}
        BY <1>1, <1>3, <1>7 DEF LocksHold
  <2>4. \A c \in Processes : /\ stands'[c] = "cleaning" => cleans'[c] # Absent
                             /\ stands'[c] # "ended" => status'[c] = Absent
        BY <1>1, <1>3, <1>7 DEF LocksHold
  <2>. QED BY <1>1, <2>1, <2>2, <2>3, <2>4 DEF LocksHold
<1>13. ArchivesNamed'
  <2>1. \A q \in Processes : stands[q] \in Wrote => stands'[q] = stands[q]
        BY <1>2, <1>7 DEF Wrote
  <2>2. \A q \in Processes : q \in gone' => stands'[q] \in Wrote
        BY <1>1, <1>2, <1>5, <2>1 DEF ArchivesNamed
  <2>. QED BY <1>1, <1>3, <2>1, <2>2 DEF ArchivesNamed
<1>14. GoneIsGone' /\ ArchivesThere'
      BY <1>3, <1>9 DEF GoneIsGone, ArchivesThere
<1>. QED BY <1>8, <1>10, <1>11, <1>12, <1>13, <1>14 DEF FolderIInv

-----------------------------------------------------------------------------
LEMMA FolderInitInv ==
  ASSUME FolderConstants, FolderInit
  PROVE  FolderIInv
<1>1. PICK whole \in BOOLEAN, there \in SUBSET Schemas :
        /\ versions = [s \in Schemas |->
             IF s \notin there THEN Absent
             ELSE [lock |-> s, db |-> s, archives |-> IF whole THEN {Earlier[s]} ELSE {}, summary |-> 0]]
        /\ rows = [f \in there |-> [tables |-> TRUE, row |-> [archive |-> Earlier[f], of |-> f]]]
      BY DEF FolderInit
<1>2. /\ command \in [Processes -> {"run", "synthetic", "clean", "details"}]
      /\ schema \in [Processes -> Schemas] /\ stands = [p \in Processes |-> command[p]]
      /\ has = [p \in Processes |-> Nothing] /\ status = [p \in Processes |-> Absent]
      /\ cleans = [p \in Processes |-> Absent] /\ gone = {}
      BY DEF FolderInit, FolderConstants
<1>3. /\ stands \in [Processes -> {"run", "synthetic", "clean", "details"}]
      /\ \A p \in Processes : has[p] = Nothing /\ status[p] = Absent /\ cleans[p] = Absent
      BY <1>2
<1>4. Nothing \in HasType /\ Nothing.db = Absent /\ Nothing.lock = Absent
      BY DEF Nothing, HasType
<1>5. /\ DOMAIN rows = there /\ there \subseteq Schemas
      /\ \A f \in there : /\ rows[f].tables = TRUE /\ rows[f].row \in Rows
                          /\ rows[f].row.archive = Earlier[f] /\ rows[f].row.of = f
                          /\ rows[f] \in [tables : BOOLEAN, row : Rows \cup {Absent}]
  <2>1. \A f \in there : [archive |-> Earlier[f], of |-> f] \in Rows
        BY DEF Rows, Archives
  <2>. QED BY <1>1, <2>1
<1>6. /\ versions \in [Schemas -> Folders \cup {Absent}]
      /\ \A s \in Schemas : /\ versions[s] # Absent => s \in there
                            /\ s \in there => /\ versions[s] # Absent /\ versions[s].db = s
                                              /\ versions[s].archives \subseteq {Earlier[s]}
  <2>1. \A s \in Schemas :
          [lock |-> s, db |-> s, archives |-> IF whole THEN {Earlier[s]} ELSE {}, summary |-> 0] \in Folders
        BY DEF Folders, FileNames, Archives
  <2>2. Absent \notin Folders
        BY DEF FolderConstants
  <2>. QED BY <1>1, <2>1, <2>2
<1>7. Absent \notin there
      BY <1>5 DEF FolderConstants, FileNames
<1>8. FolderTypeOK
  <2>1. rows \in [there -> [tables : BOOLEAN, row : Rows \cup {Absent}]]
        BY <1>1, <1>5
  <2>2. has \in [Processes -> HasType]
        BY <1>2, <1>4
  <2>3. status \in [Processes -> {Absent, 0, 1}] /\ cleans \in [Processes -> (SUBSET Archives) \cup {Absent}]
        BY <1>2
  <2>4. stands \in [Processes -> Stands]
        BY <1>3 DEF Stands
  <2>. QED BY <1>2, <1>5, <1>6, <2>1, <2>2, <2>3, <2>4 DEF FolderTypeOK, HasType, FileNames
<1>9. \A s \in Schemas, f \in DOMAIN rows : Linked(s, f) => s = f
      BY <1>5, <1>6 DEF Linked
<1>10. NamesLead
      BY <1>3, <1>5, <1>6 DEF NamesLead, Using
<1>11. OneSchema
  <2>1. \A f \in DOMAIN rows : Users(f) \subseteq {f}
        BY <1>3, <1>4, <1>5, <1>7, <1>9 DEF Users
  <2>. QED BY <1>5, <2>1 DEF OneSchema
<1>12. LocksHold
      BY <1>3 DEF LocksHold
<1>13. ArchivesNamed
  <2>1. \A s \in Schemas : Earlier[s] \notin Processes
        BY DEF FolderConstants
  <2>. QED BY <1>2, <1>3, <1>5, <1>6, <2>1 DEF ArchivesNamed
<1>14. GoneIsGone
      BY <1>2, <1>3 DEF GoneIsGone
<1>15. ArchivesThere
      BY <1>3, <1>5, <1>9 DEF ArchivesThere
<1>. QED BY <1>8, <1>10, <1>11, <1>12, <1>13, <1>14, <1>15 DEF FolderIInv

(* Whatever commands of whichever builds meet in a cache's folder, and     *)
(* wherever they fail or are killed: the names in it, what processes have  *)
(* open, the rows, the archives and what cleans took away agree.           *)
THEOREM FolderInvariant == ASSUME FolderConstants PROVE FolderSpec => []FolderIInv
<1>1. ASSUME FolderIInv, UNCHANGED folderVars PROVE FolderIInv'
  <2>1. /\ UNCHANGED schema /\ UNCHANGED stands /\ UNCHANGED versions /\ UNCHANGED rows /\ UNCHANGED has
        /\ UNCHANGED status /\ UNCHANGED cleans /\ UNCHANGED gone
        BY <1>1 DEF folderVars
  <2>2. /\ FolderTypeOK /\ NamesLead /\ OneSchema /\ LocksHold /\ ArchivesNamed
        /\ GoneIsGone /\ ArchivesThere
        BY <1>1 DEF FolderIInv
  <2>3. \A t \in Schemas, f \in DOMAIN rows : Linked(t, f)' <=> Linked(t, f)
        BY <2>1 DEF Linked
  <2>4. Cut' <=> Cut
        BY <2>1 DEF Cut, CleanCut
  <2>5. FolderTypeOK' /\ NamesLead' /\ LocksHold' /\ ArchivesNamed'
        BY <2>1, <2>2 DEF FolderTypeOK, NamesLead, LocksHold, ArchivesNamed
  <2>6. OneSchema'
    <3>1. \A f \in DOMAIN rows : Users(f)' = Users(f)
          BY <2>1, <2>3 DEF Users
    <3>. QED BY <2>1, <2>2, <3>1 DEF OneSchema
  <2>7. GoneIsGone'
        BY <2>1, <2>2, <2>3 DEF GoneIsGone
  <2>8. ArchivesThere'
        BY <2>1, <2>2, <2>3, <2>4 DEF ArchivesThere
  <2>. QED BY <2>5, <2>6, <2>7, <2>8 DEF FolderIInv
<1>2. ASSUME FolderIInv, FolderNext PROVE FolderIInv'
  <2>1. PICK p \in Processes :
          \/ Plan(p) \/ TakeLock(p) \/ LoadFails(p) \/ Lookup(p) \/ RestoreHit(p) \/ Task(p)
          \/ FinishCommand(p) \/ ShowDetails(p) \/ CleanFails(p) \/ Die(p)
          \/ CreateFolder(p) \/ CreateLock(p) \/ OpenDatabase(p) \/ CreateTables(p)
          \/ WriteArchive(p) \/ Replace(p) \/ Put(p) \/ BeginClean(p) \/ RemoveRoot(p)
          \/ \E s \in Schemas : RemoveFolder(p, s) \/ \E n \in Names(s) : RemoveFile(p, s, n)
        BY <1>2 DEF FolderNext
  <2>2. CASE Plan(p) \/ TakeLock(p) \/ LoadFails(p) \/ Lookup(p) \/ RestoreHit(p) \/ Task(p)
        BY <1>2, <2>2, RunsStep
  <2>3. CASE FinishCommand(p) \/ ShowDetails(p) \/ CleanFails(p) \/ Die(p)
        BY <1>2, <2>3, LeavesStep
  <2>4. CASE CreateFolder(p) \/ CreateLock(p) \/ OpenDatabase(p) \/ CreateTables(p)
        BY <1>2, <2>4, CreateFolderStep, CreateLockStep, OpenDatabaseStep, CreateTablesStep
  <2>5. CASE WriteArchive(p) \/ Replace(p) \/ Put(p)
        BY <1>2, <2>5, WriteArchiveStep, ReplaceStep, PutStep
  <2>6. CASE BeginClean(p) \/ RemoveRoot(p)
        BY <1>2, <2>6, BeginCleanStep, RemoveRootStep
  <2>7. CASE \E s \in Schemas : RemoveFolder(p, s) \/ \E n \in Names(s) : RemoveFile(p, s, n)
        BY <1>2, <2>7, CleaningStep
  <2>. QED BY <2>1, <2>2, <2>3, <2>4, <2>5, <2>6, <2>7
<1>3. FolderIInv /\ [FolderNext]_folderVars => FolderIInv'
      BY <1>1, <1>2
<1>. QED BY <1>3, FolderInitInv, PTL DEF FolderSpec

(* No command uses a database without tables or of another build's schema; *)
(* no two set up one database unless a clean took its lock; nothing from   *)
(* before a clean that succeeded is found again; and an entry lacks its    *)
(* archive only while somebody is at it, or was cut short, or if it did    *)
(* before.                                                                 *)
THEOREM FolderStaysSound == ASSUME FolderConstants PROVE FolderSpec => []FolderSound
<1>1. ASSUME FolderIInv PROVE FolderSound
  <2>1. /\ FolderTypeOK /\ NamesLead /\ OneSchema /\ LocksHold /\ ArchivesNamed
        /\ GoneIsGone /\ ArchivesThere
        BY <1>1 DEF FolderIInv
  <2>2. \A p \in Processes :
          stands[p] \in {"lookup", "restore", "task", "archive", "replace", "put"} =>
            rows[has[p].db].tables
        BY <2>1 DEF NamesLead, Using
  <2>3. ASSUME NEW p \in Processes, NEW q \in Processes, p # q, stands[p] = "tables",
               stands[q] = "tables", has[p].db = has[q].db, \A c \in Processes : cleans[c] = Absent
        PROVE  FALSE
    <3>1. has[p].db \in DOMAIN rows
          BY <2>1, <2>3 DEF FolderTypeOK, NamesLead
    <3>2. schema[p] = schema[q]
          BY <2>1, <2>3, <3>1 DEF OneSchema, Users
    <3>3. has[p].lock = has[q].lock
          BY <2>1, <2>3, <3>2 DEF LocksHold
    <3>. QED BY <2>1, <2>3, <3>3 DEF LocksHold
  <2>4. ASSUME NEW s \in Schemas, versions[s] # Absent, versions[s].db # Absent,
               rows[versions[s].db].row # Absent
        PROVE  LET row == rows[versions[s].db].row IN
                 /\ row.of = s
                 /\ row.archive \notin gone
                 /\ row.archive \notin versions[s].archives =>
                      \/ row.archive = Earlier[s]
                      \/ \E p \in Processes : \/ stands[p] \in {"put", "cut"} /\ schema[p] = s
                                              \/ CleanCut(p)
    <3>1. PICK f : f = versions[s].db
          OBVIOUS
    <3>2. f \in DOMAIN rows /\ Linked(s, f) /\ s \in Users(f)
          BY <2>1, <2>4, <3>1 DEF NamesLead, Linked, Users
    <3>3. Users(f) = {s} /\ rows[f].row.of = s
          BY <2>1, <2>4, <3>1, <3>2 DEF OneSchema
    <3>4. rows[f].row.archive \notin gone
          BY <2>1, <2>4, <3>1, <3>2 DEF GoneIsGone
    <3>5. \/ rows[f].row.archive \in versions[s].archives \cup {Earlier[s]}
          \/ \E q \in Processes : \/ stands[q] = "put" /\ has[q].db = f
                                  \/ stands[q] = "cut" /\ schema[q] = s
          \/ Cut
          BY <2>1, <2>4, <3>1, <3>2 DEF ArchivesThere
    <3>6. \A q \in Processes : has[q].db = f => schema[q] = s
          BY <3>3 DEF Users
    <3>. QED BY <3>1, <3>3, <3>4, <3>5, <3>6 DEF Cut
  <2>5. \A p, q \in Processes :
          p # q /\ stands[p] = "tables" /\ stands[q] = "tables" /\ has[p].db = has[q].db =>
            \E c \in Processes : cleans[c] # Absent
        BY <2>3
  <2>. QED BY <2>2, <2>4, <2>5 DEF FolderSound
<1>. QED BY <1>1, FolderInvariant, PTL

-----------------------------------------------------------------------------
(* Fingerprint.                                                            *)

(* What the proofs need of the constants: the workspace's root is no path  *)
(* below it, what may be at a path is told apart, and what a lookup finds  *)
(* is a tree, in which nothing is below what is no folder.                 *)
FilesConstants ==
  /\ Root \notin Paths
  /\ Nil # Dir /\ Nil # Link /\ Dir # Link
  /\ \A t \in Trees, p \in Paths : t[p] # Nil => KindAt(t, Front(p)) = Dir

(* An entry says what was there when the run was recorded, and nothing     *)
(* changes after that.                                                     *)
Fingerprinted(e, seen, p) ==
  \E listed, left :
    LET fp == FingerprintPath(seen, p, listed) IN
      e.inferred[p].fingerprint = IF fp.type = "Listing" THEN LeaveOut(fp, left, e.config) ELSE fp

Recorded(e, seen) ==
  /\ e.config \in Configs
  /\ \A p \in DOMAIN e.inferred : Fingerprinted(e, seen, p)
  /\ e.envs = TrackedEnvs(e.config)
  /\ e.matches = [q \in e.config.queries |-> Matching(q, e.config.env)]

FilesIInv == entry # Nil => \E seen : seen = worktree /\ Recorded(entry, seen)

LEMMA NothingAfterEntry ==
  ASSUME FilesNext
  PROVE  entry = Nil
BY DEF FilesNext, ReadPath, Symlink, Mkdir, Unlink, ListFolder, WriteFile, Rename, RecordRun, Called

LEMMA RecordRunRecords ==
  ASSUME NEW c \in Configs, RecordRun(c)
  PROVE  FilesIInv'
<1>1. PICK r, seen, then : r = Rebuildable(c) /\ seen = worktree /\ then = before
      OBVIOUS
<1>2. PICK inputs : inputs = InferredInputs(c, r)
      OBVIOUS
<1>3. PICK g, archive : g = GlobbedInputs(before, c) /\ archive = OutputArchive(c, r)
      OBVIOUS
<1>4. /\ entry' = [config |-> c, globbed |-> g, inferred |-> inputs, envs |-> TrackedEnvs(c),
                   matches |-> [q \in c.queries |-> Matching(q, c.env)], archive |-> archive]
      /\ worktree' = worktree
      BY <1>1, <1>2, <1>3 DEF RecordRun
<1>5. \A p \in DOMAIN inputs : inputs[p].fingerprint = InputFingerprint(p, c, r)
      BY <1>2 DEF InferredInputs
<1>6. ASSUME NEW p \in DOMAIN inputs PROVE Fingerprinted(entry', seen, p)
  <2>1. PICK listed : listed = (p \in Tracked("lists", c))
        OBVIOUS
  <2>2. PICK fp : fp = FingerprintPath(seen, p, listed)
        OBVIOUS
  <2>3. \E left : inputs[p].fingerprint = IF fp.type = "Listing" THEN LeaveOut(fp, left, c) ELSE fp
    <3>1. inputs[p].fingerprint = InputFingerprint(p, c, r)
          BY <1>5
    <3>2. FingerprintPath(worktree, p, p \in Tracked("lists", c)) = fp
          BY <1>1, <2>1, <2>2
    <3>3. CASE fp.type # "Listing"
          BY <3>1, <3>2, <3>3 DEF InputFingerprint
    <3>4. CASE fp.type = "Listing"
      <4>1. PICK left : left = {q \in DOMAIN fp.entries : IsRebuildable(q, r.written, r.folders)}
                                 \cup (Children(p) \cap c.ignoredIn)
            OBVIOUS
      <4>2. inputs[p].fingerprint = LeaveOut(fp, left, c)
            BY <3>1, <3>2, <3>4, <4>1 DEF InputFingerprint
      <4>. QED BY <3>4, <4>2
    <3>. QED BY <3>3, <3>4
  <2>. QED BY <1>4, <2>2, <2>3 DEF Fingerprinted
<1>7. Recorded(entry', seen)
      BY <1>4, <1>6 DEF Recorded
<1>. QED BY <1>1, <1>4, <1>7 DEF FilesIInv

LEMMA FilesNextKeeps ==
  ASSUME FilesIInv, [FilesNext]_fileVars
  PROVE  FilesIInv'
<1>1. CASE UNCHANGED fileVars
      BY <1>1 DEF fileVars, FilesIInv
<1>2. CASE \E c \in Configs : RecordRun(c)
      BY <1>2, RecordRunRecords
<1>3. CASE FilesNext /\ entry' = entry
      BY <1>3, NothingAfterEntry DEF FilesIInv
<1>4. FilesNext => (\E c \in Configs : RecordRun(c)) \/ entry' = entry
      BY DEF FilesNext, ReadPath, Symlink, Mkdir, Unlink, ListFolder, WriteFile, Rename, Called
<1>. QED BY <1>1, <1>2, <1>3, <1>4

(* A fingerprint tells what is at the path.                                *)
LEMMA FingerprintTells ==
  ASSUME FilesConstants, NEW t, NEW p, NEW listed, NEW fp, fp = FingerprintPath(t, p, listed)
  PROVE  /\ fp = NotFound <=> KindAt(t, p) = Nil
         /\ fp.type = "File" => p # Root /\ fp = File(t[p])
         /\ fp.type = "Listing" =>
              /\ KindAt(t, p) \in {Dir, Link}
              /\ DOMAIN fp.entries = IF KindAt(t, p) = Dir THEN EntriesOf(t, p) ELSE {}
         /\ fp.type \in {"NotFound", "File", "Folder", "Listing"}
         /\ fp.type = "Listing" => fp # NotFound
<1> DEFINE kind == KindAt(t, p)
<1>0. "NotFound" # "File" /\ "NotFound" # "Folder" /\ "NotFound" # "Listing" /\ "File" # "Folder"
      /\ "File" # "Listing" /\ "Folder" # "Listing"
      OBVIOUS
<1>1. CASE kind = Nil
      BY <1>1 DEF FingerprintPath, NotFound, FilesConstants
<1>2. CASE kind \in {Dir, Link} /\ ~listed
      BY <1>2 DEF FingerprintPath, NotFound, Folder, FilesConstants
<1>3. CASE kind \in {Dir, Link} /\ listed
  <2>1. PICK E : E = IF kind = Dir THEN EntriesOf(t, p) ELSE {}
        OBVIOUS
  <2>2. fp = Listing([q \in E |-> EntryKind(t, q)], {})
        BY <1>3, <2>1 DEF FingerprintPath, FilesConstants
  <2>3. fp.type = "Listing" /\ fp.entries = [q \in E |-> EntryKind(t, q)] /\ fp # NotFound
        BY <2>2 DEF NotFound, Listing
  <2>4. DOMAIN fp.entries = E /\ kind # Nil
        BY <1>3, <2>3 DEF FilesConstants
  <2>. QED BY <1>3, <2>1, <2>3, <2>4
<1>4. CASE kind \notin {Nil, Dir, Link}
  <2>1. fp = File(t[p]) /\ p # Root
        BY <1>4 DEF FingerprintPath, KindAt, FilesConstants
  <2>2. fp.type = "File" /\ fp # NotFound
        BY <2>1 DEF File, NotFound
  <2>. QED BY <1>4, <2>1, <2>2
<1>. QED BY <1>1, <1>2, <1>3, <1>4

LEMMA LeavingOut ==
  ASSUME NEW fp, NEW left, NEW c, NEW l, l = LeaveOut(fp, left, c)
  PROVE  /\ l.type = "Listing" /\ l.ignored = left /\ l # NotFound
         /\ DOMAIN l.entries = {q \in DOMAIN fp.entries : q \notin left /\ q \notin c.notIn}
         /\ l = Listing(l.entries, left)
         /\ \A q \in DOMAIN l.entries : l.entries[q] = fp.entries[q]
         /\ l.entries = [q \in DOMAIN l.entries |-> fp.entries[q]]
BY DEF LeaveOut, Listing, NotFound

LEMMA ListingsDiffer ==
  ASSUME NEW k, NEW l, NEW ignored, k = Listing(k.entries, ignored), l = Listing(l.entries, ignored),
         k.entries = [q \in DOMAIN k.entries |-> k.entries[q]],
         l.entries = [q \in DOMAIN l.entries |-> l.entries[q]], k # l
  PROVE  \E q \in DOMAIN k.entries \cup DOMAIN l.entries :
           ~(q \in DOMAIN k.entries /\ q \in DOMAIN l.entries /\ k.entries[q] = l.entries[q])
<1>1. k.entries # l.entries
      OBVIOUS
<1>. QED BY <1>1

(* Changes that are there, from what was seen to t.                        *)
Explained(changes, seen, t) ==
  /\ changes # {}
  /\ \A c \in changes :
       CASE c[1] = "added"    -> KindAt(t, c[2]) # Nil
         [] c[1] = "removed"  -> KindAt(t, c[2]) = Nil /\ KindAt(seen, c[2]) # Nil
         [] c[1] = "modified" -> t[c[2]] # seen[c[2]]

(* What a miss says has changed of one input.                              *)
LEMMA MissTells ==
  ASSUME FilesConstants, NEW t \in Trees, NEW seen, NEW p,
         NEW e, Fingerprinted(e, seen, p), ~ValidInput(e, t, p)
  PROVE  Explained(ChangesOf(e.inferred[p].fingerprint, Current(e, t, p), p), seen, t)
<1>1. PICK stored, now, changes :
        /\ stored = e.inferred[p].fingerprint /\ now = Current(e, t, p)
        /\ changes = ChangesOf(stored, now, p)
      OBVIOUS
<1>2. PICK listed, left, fp :
        /\ fp = FingerprintPath(seen, p, listed)
        /\ stored = IF fp.type = "Listing" THEN LeaveOut(fp, left, e.config) ELSE fp
      BY <1>1 DEF Fingerprinted
<1>3. PICK also, ft : also = (stored.type = "Listing") /\ ft = FingerprintPath(t, p, also)
      OBVIOUS
<1>4. now = IF stored.type = "Listing" /\ ft.type = "Listing"
              THEN LeaveOut(ft, stored.ignored, e.config) ELSE ft
      BY <1>1, <1>3 DEF Current
<1>5. stored # now
      BY <1>1 DEF ValidInput
<1>6. /\ fp = NotFound <=> KindAt(seen, p) = Nil
      /\ fp.type = "File" => p # Root /\ fp = File(seen[p])
      /\ fp.type = "Listing" =>
           /\ fp # NotFound /\ KindAt(seen, p) \in {Dir, Link}
           /\ DOMAIN fp.entries = IF KindAt(seen, p) = Dir THEN EntriesOf(seen, p) ELSE {}
      BY <1>2, FingerprintTells
<1>7. /\ ft = NotFound <=> KindAt(t, p) = Nil
      /\ ft.type = "File" => p # Root /\ ft = File(t[p])
      /\ ft.type = "Listing" =>
           /\ ft # NotFound /\ KindAt(t, p) \in {Dir, Link}
           /\ DOMAIN ft.entries = IF KindAt(t, p) = Dir THEN EntriesOf(t, p) ELSE {}
      BY <1>3, FingerprintTells
<1>8. PICK kept, known : kept = LeaveOut(fp, left, e.config) /\ known = LeaveOut(ft, left, e.config)
      OBVIOUS
<1>9. /\ kept.type = "Listing" /\ kept.ignored = left /\ kept # NotFound
       /\ DOMAIN kept.entries = {q \in DOMAIN fp.entries : q \notin left /\ q \notin e.config.notIn}
       /\ kept = Listing(kept.entries, left)
       /\ kept.entries = [q \in DOMAIN kept.entries |-> fp.entries[q]]
      BY <1>8, LeavingOut
<1>10. /\ known.type = "Listing" /\ known # NotFound
       /\ DOMAIN known.entries = {q \in DOMAIN ft.entries : q \notin left /\ q \notin e.config.notIn}
       /\ known = Listing(known.entries, left)
       /\ known.entries = [q \in DOMAIN known.entries |-> ft.entries[q]]
      BY <1>8, LeavingOut
<1>11. stored = IF fp.type = "Listing" THEN kept ELSE fp
      BY <1>2, <1>8
<1>12. stored.type = fp.type /\ (fp.type = "Listing" => stored.ignored = left)
      BY <1>9, <1>11
<1>13. now = IF fp.type = "Listing" /\ ft.type = "Listing" THEN known ELSE ft
      BY <1>4, <1>8, <1>12
<1>14. now.type = ft.type
      BY <1>10, <1>13
<1>15. /\ stored = NotFound <=> KindAt(seen, p) = Nil
       /\ stored.type = "File" => p # Root /\ stored = File(seen[p])
      BY <1>6, <1>9, <1>11, <1>12
<1>16. /\ now = NotFound <=> KindAt(t, p) = Nil
       /\ now.type = "File" => p # Root /\ now = File(t[p])
      BY <1>7, <1>10, <1>13, <1>14
<1>17. SUFFICES
        /\ changes # {}
        /\ \A c \in changes :
             CASE c[1] = "added"    -> KindAt(t, c[2]) # Nil
               [] c[1] = "removed"  -> KindAt(t, c[2]) = Nil /\ KindAt(seen, c[2]) # Nil
               [] c[1] = "modified" -> t[c[2]] # seen[c[2]]
      BY <1>1 DEF Explained
<1>18. CASE stored = NotFound
  <2>1. changes = {<<"added", p>>}
    <3>1. NotFound.type = "NotFound"
          BY DEF NotFound
    <3>. QED BY <1>1, <1>18, <3>1 DEF ChangesOf
  <2>. QED BY <1>5, <1>18, <1>16, <2>1
<1>19. CASE stored # NotFound /\ now = NotFound
  <2>1. changes = {<<"removed", p>>}
        BY <1>1, <1>19 DEF ChangesOf, NotFound
  <2>. QED BY <1>19, <1>15, <1>16, <2>1
<1>20. CASE stored # NotFound /\ now # NotFound /\ stored.type = "File" /\ now.type = "File"
  <2>1. changes = {<<"modified", p>>}
        BY <1>1, <1>20 DEF ChangesOf, NotFound
  <2>. QED BY <1>5, <1>20, <1>15, <1>16, <2>1
<1>21. CASE stored # NotFound /\ now # NotFound /\ stored.type = "Listing" /\ now.type = "Listing"
  <2>1. stored = kept /\ now = known
        BY <1>21, <1>11, <1>12, <1>13, <1>14
  <2>2. /\ stored.entries = [q \in DOMAIN stored.entries |-> stored.entries[q]]
        /\ now.entries = [q \in DOMAIN now.entries |-> now.entries[q]]
        BY <1>9, <1>10, <2>1
  <2>3. \E q \in DOMAIN stored.entries \cup DOMAIN now.entries :
          ~(q \in DOMAIN stored.entries /\ q \in DOMAIN now.entries
            /\ stored.entries[q] = now.entries[q])
        BY <1>5, <1>9, <1>10, <2>1, <2>2, ListingsDiffer
  <2>4. changes = {<<IF q \in DOMAIN now.entries THEN "added" ELSE "removed", q>> :
                     q \in {r \in DOMAIN stored.entries \cup DOMAIN now.entries :
                              ~(/\ r \in DOMAIN stored.entries /\ r \in DOMAIN now.entries
                                /\ stored.entries[r] = now.entries[r])}}
        BY <1>1, <1>21 DEF ChangesOf, NotFound
  <2>5. /\ DOMAIN stored.entries = {q \in DOMAIN fp.entries : q \notin left /\ q \notin e.config.notIn}
        /\ DOMAIN now.entries = {q \in DOMAIN ft.entries : q \notin left /\ q \notin e.config.notIn}
        BY <1>9, <1>10, <2>1
  <2>6. /\ DOMAIN fp.entries = IF KindAt(seen, p) = Dir THEN EntriesOf(seen, p) ELSE {}
        /\ DOMAIN ft.entries = IF KindAt(t, p) = Dir THEN EntriesOf(t, p) ELSE {}
        /\ KindAt(t, p) \in {Dir, Link}
        BY <1>6, <1>7, <1>21, <1>12, <1>14
  <2>7. ASSUME NEW q \in DOMAIN now.entries PROVE KindAt(t, q) # Nil
        BY <2>5, <2>6 DEF EntriesOf, KindAt, FilesConstants
  <2>8. ASSUME NEW q \in DOMAIN stored.entries, q \notin DOMAIN now.entries
        PROVE  KindAt(t, q) = Nil /\ KindAt(seen, q) # Nil
    <3>1. q \in EntriesOf(seen, p) /\ q \notin left /\ q \notin e.config.notIn
          BY <2>5, <2>6, <2>8
    <3>2. q \in Paths /\ Front(q) = p /\ Counts(q) /\ seen[q] # Nil /\ q # Root
          BY <3>1 DEF EntriesOf, Children, FilesConstants
    <3>3. q \notin EntriesOf(t, p) \/ KindAt(t, p) # Dir
          BY <2>5, <2>6, <2>8, <3>1
    <3>4. t[q] = Nil
          BY <3>2, <3>3 DEF EntriesOf, Children, FilesConstants
    <3>. QED BY <3>2, <3>4 DEF KindAt
  <2>9. changes # {}
        BY <2>3, <2>4
  <2>10. ASSUME NEW c \in changes
         PROVE  CASE c[1] = "added"    -> KindAt(t, c[2]) # Nil
                  [] c[1] = "removed"  -> KindAt(t, c[2]) = Nil /\ KindAt(seen, c[2]) # Nil
                  [] c[1] = "modified" -> t[c[2]] # seen[c[2]]
    <3>1. PICK q \in DOMAIN stored.entries \cup DOMAIN now.entries :
            c = <<IF q \in DOMAIN now.entries THEN "added" ELSE "removed", q>>
          BY <2>4
    <3>2. CASE q \in DOMAIN now.entries
      <4>1. c[1] = "added" /\ c[2] = q
            BY <3>1, <3>2
      <4>. QED BY <2>7, <3>2, <4>1
    <3>3. CASE q \notin DOMAIN now.entries
      <4>1. c[1] = "removed" /\ c[2] = q
            BY <3>1, <3>3
      <4>. QED BY <2>8, <3>1, <3>3, <4>1
    <3>. QED BY <3>2, <3>3
  <2>. QED BY <2>9, <2>10
<1>22. CASE /\ stored # NotFound /\ now # NotFound
            /\ ~(stored.type = "File" /\ now.type = "File")
            /\ ~(stored.type = "Listing" /\ now.type = "Listing")
  <2>1. changes = {<<"added", p>>}
        BY <1>1, <1>22 DEF ChangesOf
  <2>. QED BY <1>22, <1>16, <2>1
<1>. QED BY <1>18, <1>19, <1>20, <1>21, <1>22

(* An entry is what its run left, until a lookup compares it with another  *)
(* tree: what it says of each input is what was there when it was made.    *)
THEOREM EntryInvariant == FilesSpec => []FilesIInv
<1>1. FilesInit => FilesIInv
      BY DEF FilesInit, FilesIInv
<1>. QED BY <1>1, FilesNextKeeps, PTL DEF FilesSpec

(* A miss names a change that is there, for any tree, configuration, calls *)
(* and any tree that the lookup finds.                                     *)
THEOREM MissesExplained == ASSUME FilesConstants PROVE FilesSpec => []MissExplained
<1>1. FilesIInv => MissExplained
  <2> SUFFICES ASSUME FilesIInv, entry # Nil, NEW t \in Trees, NEW p \in DOMAIN entry.inferred,
                      ~ValidInput(entry, t, p)
               PROVE  Explained(ChangesOf(entry.inferred[p].fingerprint, Current(entry, t, p), p),
                                worktree, t)
      BY DEF MissExplained, Explained
  <2>1. PICK seen, e : seen = worktree /\ e = entry /\ Recorded(e, seen)
        BY DEF FilesIInv
  <2>2. Fingerprinted(e, seen, p)
        BY <2>1 DEF Recorded
  <2>3. Explained(ChangesOf(e.inferred[p].fingerprint, Current(e, t, p), p), seen, t)
        BY <2>1, <2>2, MissTells
  <2>. QED BY <2>1, <2>3
<1>. QED BY <1>1, EntryInvariant, PTL

(* A hit finds the environment that the tools asked about as they were     *)
(* told of it, whatever it holds: no variable that came, went or changed   *)
(* is missed, of those asked for by name and of those that a pattern names.*)
THEOREM EnvironmentsSeen == FilesSpec => []EnvSeen
<1>1. FilesIInv => EnvSeen
  <2> SUFFICES ASSUME FilesIInv, entry # Nil, NEW env \in Envs, ValidEnvs(entry, env)
               PROVE  SameEnv(env)
      BY DEF EnvSeen
  <2>1. PICK c : c = entry.config
        OBVIOUS
  <2>2. /\ entry.envs = TrackedEnvs(c)
        /\ entry.matches = [q \in c.queries |-> Matching(q, c.env)]
        BY <2>1 DEF FilesIInv, Recorded
  <2>3. ASSUME NEW n \in c.gets \ c.declared PROVE env[n] = c.env[n]
        BY <2>2 DEF ValidEnvs, TrackedEnvs
  <2>4. ASSUME NEW q \in c.queries, NEW n \in q PROVE env[n] = c.env[n]
    <3>1. Matching(q, env) = Matching(q, c.env)
          BY <2>2 DEF ValidEnvs
    <3>2. \A v : /\ n \in DOMAIN Matching(q, v) <=> v[n] # Unset
                 /\ v[n] # Unset => Matching(q, v)[n] = v[n]
          BY DEF Matching
    <3>. QED BY <3>1, <3>2
  <2>. QED BY <2>1, <2>3, <2>4 DEF SameEnv
<1>. QED BY <1>1, EntryInvariant, PTL
=============================================================================
