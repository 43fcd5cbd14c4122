-------------------------- MODULE LocalStorageProofs --------------------------
(***************************************************************************)
(* Theorems about the bootstrap of schema and keys and about the writing   *)
(* of receipts, for any number of processes, and any crashes and failures. *)
(***************************************************************************)
EXTENDS LocalStorage, TLAPS

Stages ==
    {"start", "refused", "migrate", "find ledger", "create ledger", "write ledger",
     "sync ledger", "read ledger", "bind", "find receipts", "create receipts",
     "write receipts", "sync receipts", "read receipts",
     "serving", "link", "copy", "sync", "verify"}
Bound == {"find receipts", "create receipts", "write receipts", "sync receipts",
          "read receipts", "serving", "link", "copy", "sync", "verify"}
Serving == {"serving", "link", "copy", "sync", "verify"}
Writing == {"link", "copy", "sync", "verify"}

(* The stages in which a process has a file open that it may yet remove.   *)
KeyOpen == {"write ledger", "write receipts", "sync ledger", "sync receipts"}
CopyOpen == {"copy", "sync"}
Open == KeyOpen \cup CopyOpen

Jobs == [id : Ids, receipt : Sealed]
Keys == {NoFile} \cup Nat
ProcessStates ==
    [stage : Stages, version : Nat, key : [Stores -> Keys], job : {NoFile} \cup Jobs]

StorageTypeOK ==
    /\ db \in [version : Nat, fingerprint : Keys, recorded : SUBSET Nat]
    /\ keyFile \in [Stores -> {NoFile, Short} \cup Nat]
    /\ receipts \in [Ids -> {NoFile, Short} \cup Sealed]
    /\ proc \in [Processes -> ProcessStates]
    /\ returned \in SUBSET (Ids \X Sealed)
    /\ withdrawn \in [keys : SUBSET Nat, receipts : SUBSET (Ids \X Sealed)]
    /\ drawn \in Nat

(* A process that serves holds both keys, and its ledger key is the one    *)
(* the database is bound to; what it writes is sealed with its own.        *)
Equipped(p) ==
    /\ proc[p].stage = "bind" => proc[p].key["ledger"] # NoFile
    /\ proc[p].stage \in Bound =>
        proc[p].key["ledger"] = db.fingerprint /\ db.fingerprint # NoFile
    /\ proc[p].stage \notin Bound => proc[p].key["receipts"] = NoFile
    /\ proc[p].stage \in {"sync receipts"} \cup Serving => proc[p].key["receipts"] # NoFile
    /\ proc[p].stage \in Writing =>
        proc[p].job \in Jobs /\ proc[p].job.receipt.key = proc[p].key["receipts"]

(* A key file that is created and not synced has one writer at most, and   *)
(* holds the key of that writer once it is written.                        *)
WritesKey(p, s) == proc[p].stage \in {WriteStage(s), SyncStage(s)}
OneKeyWriter ==
    \A p \in Processes : \A s \in Stores : WritesKey(p, s) =>
        /\ keyFile[s] = IF proc[p].stage = WriteStage(s) THEN Short ELSE proc[p].key[s]
        /\ keyFile[s] # NoFile
        /\ \A q \in Processes : WritesKey(q, s) => q = p

(* So has a receipt that is copied.                                        *)
Copies(p, i) == proc[p].stage \in CopyOpen /\ proc[p].job.id = i
OneCopier ==
    \A p \in Processes : \A i \in Ids : Copies(p, i) =>
        /\ receipts[i] = IF proc[p].stage = "copy" THEN Short ELSE proc[p].job.receipt
        /\ \A q \in Processes : Copies(q, i) => q = p

StorageInv ==
    /\ StorageTypeOK
    /\ \A p \in Processes : Equipped(p)
    /\ OneKeyWriter
    /\ OneCopier
    /\ KeysAreKept
    /\ ReturnedReceiptsStay

(* Nothing is held, and nothing is stored.                                 *)
LEMMA NothingHeld ==
    Down \in ProcessStates /\ Down.stage = "start" /\ \A s \in Stores : Down.key[s] = NoFile
  <1> DEFINE none == [s \in Stores |-> NoFile]
  <1>1. none \in [Stores -> Keys] /\ \A s \in Stores : none[s] = NoFile
    BY DEF Keys
  <1>2. Down = [stage |-> "start", version |-> 0, key |-> none, job |-> NoFile]
    BY DEF Down
  <1> HIDE DEF none
  <1>3. QED
    BY <1>1, <1>2 DEF ProcessStates, Stages

LEMMA StorageInitially == StorageInit => StorageInv
  <1> SUFFICES ASSUME StorageInit PROVE StorageInv
    OBVIOUS
  <1> USE DEF StorageInit
  <1>1. Down \in ProcessStates /\ Down.stage = "start" /\ \A s \in Stores : Down.key[s] = NoFile
    BY NothingHeld
  <1>2. db.fingerprint = NoFile /\ db.recorded = {} /\ db.version \in Nat
    OBVIOUS
  <1>3. db \in [version : Nat, fingerprint : Keys, recorded : SUBSET Nat]
    BY DEF Keys
  <1>4. StorageTypeOK
    BY <1>1, <1>3 DEF StorageTypeOK
  <1>5. \A p \in Processes : Equipped(p)
    BY <1>1 DEF Equipped, Stores, Bound, Serving, Writing
  <1>6. OneKeyWriter /\ OneCopier
    BY <1>1 DEF OneKeyWriter, WritesKey, WriteStage, SyncStage, OneCopier, Copies, CopyOpen
  <1>7. KeysAreKept
    BY <1>1, <1>2 DEF KeysAreKept, Whole, Stores
  <1>8. QED
    BY <1>4, <1>5, <1>6, <1>7 DEF StorageInv, ReturnedReceiptsStay

(* A process changes its own state only.                                   *)
Becomes(p, x) ==
    /\ x \in ProcessStates
    /\ proc' \in [Processes -> ProcessStates]
    /\ proc'[p] = x
    /\ \A q \in Processes \ {p} : proc'[q] = proc[q]

LEMMA Becoming ==
    ASSUME StorageTypeOK, NEW p \in Processes, NEW x \in ProcessStates,
           proc' = [proc EXCEPT ![p] = x]
    PROVE  Becomes(p, x)
  BY DEF Becomes, StorageTypeOK

LEMMA GoingTo ==
    ASSUME StorageTypeOK, NEW p \in Processes, NEW stage \in Stages, Goto(p, stage)
    PROVE  Becomes(p, [proc[p] EXCEPT !.stage = stage])
  BY DEF Becomes, StorageTypeOK, Goto, ProcessStates

(* A step of a process that moves to a stage where it writes nothing, and  *)
(* leaves every file alone.                                                *)
LEMMA Moving ==
    ASSUME StorageInv, NEW p \in Processes, NEW x, Becomes(p, x),
           UNCHANGED <<keyFile, receipts, returned, withdrawn>>,
           StorageTypeOK',
           db.fingerprint # NoFile => db'.fingerprint = db.fingerprint,
           db'.fingerprint # NoFile => db'.fingerprint \in KeysOf("ledger"),
           db'.recorded \subseteq {db'.fingerprint},
           \A s \in Stores : x.key[s] \in {NoFile} \cup KeysOf(s),
           x.stage \notin Open,
           Equipped(p)'
    PROVE  StorageInv'
  <1>1. \A q \in Processes : Equipped(q)'
    BY DEF StorageInv, Equipped, Becomes
  <1>2. OneKeyWriter'
    <2>1. ~\E s \in Stores : WritesKey(p, s)'
      BY DEF WritesKey, WriteStage, SyncStage, Becomes, Open, KeyOpen
    <2>2. QED
      BY <2>1 DEF StorageInv, OneKeyWriter, WritesKey, Becomes
  <1>3. OneCopier'
    BY DEF StorageInv, OneCopier, Copies, Becomes, Open
  <1>4. KeysAreKept'
    <2>1. \A s \in Stores : KeysOf(s)' = KeysOf(s)
      BY DEF KeysOf
    <2>2. "ledger" \in Stores /\ "receipts" \in Stores
      BY DEF Stores
    <2>3. \A q \in Processes : \A s \in Stores :
            proc'[q].key[s] # NoFile => proc'[q].key[s] \in KeysOf(s)
      BY DEF StorageInv, KeysAreKept, Becomes
    <2>4. \A q \in Processes :
            proc'[q].key["receipts"] # NoFile => proc'[q].key["ledger"] = db'.fingerprint
      BY <1>1 DEF Equipped
    <2>5. \A i \in Ids : Whole(receipts'[i]) => receipts'[i].key \in KeysOf("receipts")
      BY DEF StorageInv, KeysAreKept
    <2>6. QED
      BY <2>1, <2>2, <2>3, <2>4, <2>5 DEF KeysAreKept
  <1>5. ReturnedReceiptsStay'
    BY DEF StorageInv, ReturnedReceiptsStay
  <1>6. QED
    BY <1>1, <1>2, <1>3, <1>4, <1>5 DEF StorageInv

(* The same when the database stays what it is, too.                       *)
Quiet(p, x) ==
    /\ Becomes(p, x)
    /\ UNCHANGED <<db, keyFile, receipts, returned, withdrawn, drawn>>
    /\ \A s \in Stores : x.key[s] \in {NoFile} \cup KeysOf(s)
    /\ x.stage \notin Open
    /\ Equipped(p)'

LEMMA Staying ==
    ASSUME StorageInv, NEW p \in Processes, NEW x, Quiet(p, x)
    PROVE  StorageInv'
  <1>1. StorageTypeOK'
    BY DEF Quiet, StorageInv, StorageTypeOK, Becomes
  <1>2. /\ db.fingerprint # NoFile => db'.fingerprint = db.fingerprint
        /\ db'.fingerprint # NoFile => db'.fingerprint \in KeysOf("ledger")
        /\ db'.recorded \subseteq {db'.fingerprint}
    BY DEF Quiet, StorageInv, KeysAreKept
  <1>3. QED
    BY <1>1, <1>2, Moving DEF Quiet

(* A process that is down, or that refused to start, holds nothing.        *)
LEMMA Leaving ==
    ASSUME StorageInv, NEW p \in Processes,
           Refuse(p) \/ proc' = [proc EXCEPT ![p] = Down],
           UNCHANGED <<db, keyFile, receipts, returned, withdrawn, drawn>>
    PROVE  StorageInv'
  <1> DEFINE gone == [Down EXCEPT !.stage = "refused"]
  <1>1. gone \in ProcessStates /\ gone.stage = "refused" /\ \A s \in Stores : gone.key[s] = NoFile
    BY NothingHeld DEF ProcessStates, Stages
  <1> HIDE DEF gone
  <1>2. PICK x \in {Down, gone} : Becomes(p, x)
    BY <1>1, NothingHeld, Becoming DEF Refuse, StorageInv, gone
  <1>3. Quiet(p, x)
    BY <1>1, <1>2, NothingHeld
    DEF Quiet, Becomes, Equipped, Bound, Serving, Writing, Open, KeyOpen, CopyOpen, Stores
  <1>4. QED
    BY <1>3, Staying

(* What a process holds, by its key files.                                 *)
LEMMA KeysHeld ==
    ASSUME StorageInv, NEW p \in Processes
    PROVE  /\ proc[p] \in ProcessStates
           /\ \A s \in Stores : proc[p].key[s] \in {NoFile} \cup KeysOf(s)
  BY DEF StorageInv, StorageTypeOK, KeysAreKept

LEMMA KeyIsKept ==
    ASSUME StorageInv, NEW p \in Processes, NEW s \in Stores, proc[p].key[s] # NoFile
    PROVE  proc[p].key[s] \in Nat /\ proc[p].key[s] \in KeysOf(s)
  BY KeysHeld DEF ProcessStates, Keys

LEMMA ReadVersionKeeps ==
    ASSUME StorageInv, NEW p \in Processes, ReadVersion(p)
    PROVE  StorageInv'
  <1> DEFINE x == [proc[p] EXCEPT !.stage = "migrate", !.version = db.version]
  <1>1. x \in ProcessStates /\ x.stage = "migrate" /\ x.key = proc[p].key
    BY KeysHeld DEF StorageInv, StorageTypeOK, ProcessStates, Stages
  <1>2. proc' = [proc EXCEPT ![p] = x]
    BY DEF ReadVersion, StorageInv, StorageTypeOK
  <1> HIDE DEF x
  <1>3. Becomes(p, x)
    BY <1>1, <1>2, Becoming DEF StorageInv
  <1>4. Quiet(p, x)
    BY <1>1, <1>3, KeysHeld
    DEF Quiet, Becomes, Equipped, Bound, Serving, Writing, Open, KeyOpen, CopyOpen, ReadVersion,
        StorageInv
  <1>5. QED
    BY <1>4, Staying

(* A process goes on to a stage for which it has what it needs.            *)
LEMMA Proceeding ==
    ASSUME StorageInv, NEW p \in Processes, NEW stage \in Stages, Goto(p, stage),
           UNCHANGED <<db, keyFile, receipts, returned, withdrawn, drawn>>,
           stage \notin Open,
           stage = "bind" => proc[p].stage = "bind",
           stage \in Bound <=> proc[p].stage \in Bound,
           stage \in Serving => proc[p].stage \in {"sync receipts"} \cup Serving,
           stage \in Writing => proc[p].stage \in Writing
    PROVE  StorageInv'
  <1> DEFINE x == [proc[p] EXCEPT !.stage = stage]
  <1>1. x.stage = stage /\ x.key = proc[p].key /\ x.job = proc[p].job
    BY KeysHeld DEF ProcessStates
  <1>2. Becomes(p, x)
    BY GoingTo DEF StorageInv
  <1> HIDE DEF x
  <1>3. Equipped(p)'
    BY <1>1, <1>2 DEF StorageInv, Equipped, Becomes, Open, KeyOpen
  <1>4. Quiet(p, x)
    BY <1>1, <1>2, <1>3, KeysHeld DEF Quiet
  <1>5. QED
    BY <1>4, Staying

LEMMA FindingKeeps ==
    ASSUME StorageInv, NEW p \in Processes, FindCohortKey(p) \/ FindIntegrityKey(p)
    PROVE  StorageInv'
  <1>1. CASE Refuse(p)
    BY <1>1, Leaving DEF FindCohortKey, FindIntegrityKey
  <1>2. CASE FindCohortKey(p) /\ ~Refuse(p)
    <2>1. PICK stage \in {"read ledger", "create ledger"} : Goto(p, stage)
      BY <1>2 DEF FindCohortKey
    <2>2. QED
      BY <1>2, <2>1, Proceeding DEF FindCohortKey, Stages, Bound, Serving, Writing, Open, KeyOpen, CopyOpen
  <1>3. CASE FindIntegrityKey(p) /\ ~Refuse(p)
    <2>1. PICK stage \in {"read receipts", "create receipts"} : Goto(p, stage)
      BY <1>3 DEF FindIntegrityKey
    <2>2. QED
      BY <1>3, <2>1, Proceeding DEF FindIntegrityKey, Stages, Bound, Serving, Writing, Open, KeyOpen, CopyOpen
  <1>4. QED
    BY <1>1, <1>2, <1>3

LEMMA MigrateKeeps ==
    ASSUME StorageInv, NEW p \in Processes, Migrate(p)
    PROVE  StorageInv'
  <1> DEFINE x == [proc[p] EXCEPT !.stage = "find ledger"]
  <1>1. x.stage = "find ledger" /\ x.key = proc[p].key
    BY KeysHeld DEF ProcessStates
  <1>2. Becomes(p, x)
    BY GoingTo DEF StorageInv, Migrate, Goto, Stages
  <1> HIDE DEF x
  <1>3. /\ db' \in [version : Nat, fingerprint : Keys, recorded : SUBSET Nat]
        /\ db'.fingerprint = db.fingerprint /\ db'.recorded = db.recorded
    BY DEF Migrate, StorageInv, StorageTypeOK, SchemaVersion
  <1>4. StorageTypeOK'
    BY <1>2, <1>3 DEF Migrate, StorageInv, StorageTypeOK, Becomes
  <1>5. Equipped(p)'
    BY <1>1, <1>2 DEF Equipped, Becomes, Bound, Serving, Writing, Migrate, StorageInv
  <1>6. QED
    BY <1>1, <1>2, <1>3, <1>4, <1>5, KeysHeld, Moving
    DEF Migrate, StorageInv, KeysAreKept, Open, KeyOpen, CopyOpen

LEMMA BindKeeps ==
    ASSUME StorageInv, NEW p \in Processes, Bind(p)
    PROVE  StorageInv'
  <1>1. CASE Refuse(p) /\ UNCHANGED db
    BY <1>1, Leaving DEF Bind
  <1>2. CASE ~(Refuse(p) /\ UNCHANGED db)
    <2> DEFINE x == [proc[p] EXCEPT !.stage = "find receipts"]
               key == proc[p].key["ledger"]
    <2>1. Goto(p, "find receipts") /\ db' = [db EXCEPT !.fingerprint = key]
          /\ db.fingerprint \in {NoFile, key}
      BY <1>2 DEF Bind
    <2>2. x.stage = "find receipts" /\ x.key = proc[p].key
      BY KeysHeld DEF ProcessStates
    <2>3. Becomes(p, x)
      BY <2>1, GoingTo DEF StorageInv, Stages
    <2>4. key \in Nat /\ key \in KeysOf("ledger")
      <3>1. key # NoFile
        BY DEF StorageInv, Equipped, Bind
      <3>2. QED
        BY <3>1, KeyIsKept DEF Stores
    <2> HIDE DEF x, key
    <2>5. /\ db'.fingerprint = key /\ db'.recorded = db.recorded
          /\ db' \in [version : Nat, fingerprint : Keys, recorded : SUBSET Nat]
      BY <2>1, <2>4 DEF StorageInv, StorageTypeOK, Keys
    <2>6. db.recorded \subseteq {key}
      BY <2>1, <2>4, StorageAssumption DEF StorageInv, StorageTypeOK, KeysAreKept
    <2>7. StorageTypeOK'
      BY <2>3, <2>5 DEF Bind, StorageInv, StorageTypeOK, Becomes
    <2>8. Equipped(p)'
      BY <2>2, <2>3, <2>4, <2>5, StorageAssumption
      DEF Equipped, Becomes, Bound, Serving, Writing, key
    <2>9. x.stage \notin Open /\ \A s \in Stores : x.key[s] \in {NoFile} \cup KeysOf(s)
      BY <2>2, KeysHeld DEF Open, KeyOpen, CopyOpen
    <2>10. QED
      BY <2>1, <2>3, <2>4, <2>5, <2>6, <2>7, <2>8, <2>9, Moving DEF Bind
  <1>3. QED
    BY <1>1, <1>2

LEMMA RecordReleaseKeeps ==
    ASSUME StorageInv, NEW p \in Processes, RecordRelease(p)
    PROVE  StorageInv'
  <1> DEFINE key == proc[p].key["ledger"]
  <1>1. key \in Nat /\ db.fingerprint = key
    <2>1. key # NoFile /\ db.fingerprint = key
      BY DEF StorageInv, Equipped, RecordRelease, Bound
    <2>2. QED
      BY <2>1, KeyIsKept DEF Stores
  <1> HIDE DEF key
  <1>2. db' = [db EXCEPT !.recorded = @ \cup {key}]
    BY DEF RecordRelease, key
  <1>3. /\ db'.fingerprint = key /\ db'.recorded \subseteq {key}
        /\ db' \in [version : Nat, fingerprint : Keys, recorded : SUBSET Nat]
    BY <1>1, <1>2 DEF StorageInv, StorageTypeOK, KeysAreKept
  <1>4. StorageTypeOK'
    BY <1>3 DEF RecordRelease, StorageInv, StorageTypeOK
  <1>5. KeysAreKept'
    BY <1>1, <1>3 DEF RecordRelease, StorageInv, KeysAreKept, KeysOf
  <1>6. \A q \in Processes : Equipped(q)'
    BY <1>1, <1>3, StorageAssumption DEF RecordRelease, StorageInv, Equipped
  <1>7. OneKeyWriter' /\ OneCopier' /\ ReturnedReceiptsStay'
    BY DEF RecordRelease, StorageInv, OneKeyWriter, WritesKey, OneCopier, Copies,
           ReturnedReceiptsStay
  <1>8. QED
    BY <1>4, <1>5, <1>6, <1>7 DEF StorageInv

LEMMA ReadKeyKeeps ==
    ASSUME StorageInv, NEW p \in Processes, NEW s \in Stores, ReadKey(p, s)
    PROVE  StorageInv'
  <1>1. CASE ~Whole(keyFile[s])
    BY <1>1, Leaving DEF ReadKey
  <1>2. CASE Whole(keyFile[s])
    <2> DEFINE x == [proc[p] EXCEPT !.stage = HeldStage(s), !.key[s] = keyFile[s]]
    <2>1. keyFile[s] \in Nat
      BY <1>2 DEF Whole, StorageInv, StorageTypeOK
    <2>2. /\ x \in ProcessStates /\ x.stage = HeldStage(s) /\ x.job = proc[p].job
          /\ x.key = [proc[p].key EXCEPT ![s] = keyFile[s]]
      BY <2>1, KeysHeld DEF ProcessStates, Stages, Keys, HeldStage
    <2>3. proc' = [proc EXCEPT ![p] = x]
      BY <1>2 DEF ReadKey, StorageInv, StorageTypeOK
    <2> HIDE DEF x
    <2>4. Becomes(p, x)
      BY <2>2, <2>3, Becoming DEF StorageInv
    <2>5. /\ x.key[s] = keyFile[s]
          /\ \A t \in Stores \ {s} : x.key[t] = proc[p].key[t]
      BY <2>2, KeysHeld DEF ProcessStates
    <2>6. Equipped(p)'
      <3>1. CASE s = "ledger"
        <4>1. proc'[p] = x /\ x.stage = "bind" /\ x.key["ledger"] # NoFile
          BY <2>1, <2>2, <2>4, <2>5, <3>1, StorageAssumption DEF Becomes, HeldStage
        <4>2. proc[p].key["receipts"] = NoFile
          BY <3>1 DEF StorageInv, Equipped, ReadKey, ReadStage, Bound
        <4>3. x.key["receipts"] = NoFile
          BY <2>5, <3>1, <4>2 DEF Stores
        <4>4. QED
          BY <4>1, <4>3 DEF Equipped, Bound, Serving, Writing
      <3>2. CASE s = "receipts"
        <4>1. proc[p].key["ledger"] = db.fingerprint /\ db.fingerprint # NoFile
          BY <3>2 DEF StorageInv, Equipped, ReadKey, ReadStage, Bound
        <4>2. proc'[p] = x /\ x.stage = "serving" /\ UNCHANGED db
          BY <2>2, <2>4, <3>2 DEF Becomes, HeldStage, ReadKey
        <4>3. x.key["ledger"] = proc[p].key["ledger"] /\ x.key["receipts"] # NoFile
          BY <2>1, <2>5, <3>2, <4>1, StorageAssumption DEF Stores
        <4>4. QED
          BY <4>1, <4>2, <4>3 DEF Equipped, Writing, Bound
      <3>3. QED
        BY <3>1, <3>2 DEF Stores
    <2>7. Quiet(p, x)
      BY <2>2, <2>4, <2>5, <2>6, KeysHeld
      DEF Quiet, ReadKey, HeldStage, Open, KeyOpen, CopyOpen, KeysOf
    <2>8. QED
      BY <2>7, Staying
  <1>3. QED
    BY <1>1, <1>2

(* A process writes one key file at a time.                                *)
LEMMA StagesDiffer ==
    ASSUME NEW s \in Stores, NEW t \in Stores, t # s
    PROVE  {WriteStage(s), SyncStage(s)} \cap {WriteStage(t), SyncStage(t)} = {}
  <1>1. CASE s = "ledger"
    BY <1>1 DEF Stores, WriteStage, SyncStage
  <1>2. CASE s = "receipts"
    BY <1>2 DEF Stores, WriteStage, SyncStage
  <1>3. QED
    BY <1>1, <1>2 DEF Stores

(* Keys that could be read stay known: in their file, or as withdrawn.     *)
LEMMA KeepingKeys ==
    ASSUME StorageInv,
           \A s \in Stores, k \in Nat : k \in KeysOf(s) => k \in KeysOf(s)',
           \A q \in Processes : Equipped(q)',
           \A q \in Processes : proc[q].key \in [Stores -> Keys],
           \A q \in Processes, s \in Stores :
                proc'[q].key[s] \in {NoFile, proc[q].key[s]} \cup KeysOf(s)',
           UNCHANGED <<db, receipts>>
    PROVE  KeysAreKept'
  <1>1. "ledger" \in Stores /\ "receipts" \in Stores
    BY DEF Stores
  <1>2. \A q \in Processes : \A s \in Stores :
            proc'[q].key[s] # NoFile => proc'[q].key[s] \in KeysOf(s)'
    BY KeyIsKept
  <1>3. \A q \in Processes :
            proc'[q].key["receipts"] # NoFile => proc'[q].key["ledger"] = db'.fingerprint
    BY DEF Equipped
  <1>4. db'.fingerprint # NoFile => db'.fingerprint \in KeysOf("ledger")'
    BY <1>1 DEF StorageInv, StorageTypeOK, KeysAreKept, Keys
  <1>5. \A i \in Ids : Whole(receipts'[i]) => receipts'[i].key \in KeysOf("receipts")'
    BY <1>1 DEF StorageInv, StorageTypeOK, KeysAreKept, Whole, Sealed
  <1>6. QED
    BY <1>2, <1>3, <1>4, <1>5 DEF StorageInv, KeysAreKept

(* One process creates a key file, writes it, syncs it or removes it: when *)
(* it still writes it, it is the only one.                                 *)
LEMMA WritingKeeps ==
    ASSUME StorageInv, NEW p \in Processes, NEW s \in Stores,
           \A q \in Processes \ {p} : ~WritesKey(q, s),
           NEW x, Becomes(p, x), x.stage \notin CopyOpen,
           NEW file \in {NoFile, Short} \cup Nat, keyFile' = [keyFile EXCEPT ![s] = file],
           x.stage = WriteStage(s) => file = Short,
           x.stage = SyncStage(s) => file = x.key[s] /\ file # NoFile,
           \A t \in Stores \ {s} : x.stage \notin {WriteStage(t), SyncStage(t)},
           \A t \in Stores, k \in Nat : k \in KeysOf(t) => k \in KeysOf(t)',
           \A t \in Stores : x.key[t] \in {NoFile, proc[p].key[t]} \cup KeysOf(t)',
           UNCHANGED <<db, receipts, returned>>, drawn' \in Nat,
           withdrawn' \in [keys : SUBSET Nat, receipts : SUBSET (Ids \X Sealed)],
           withdrawn'.receipts = withdrawn.receipts,
           Equipped(p)'
    PROVE  StorageInv'
  <1>1. /\ keyFile' \in [Stores -> {NoFile, Short} \cup Nat] /\ keyFile'[s] = file
        /\ \A t \in Stores \ {s} : keyFile'[t] = keyFile[t]
    BY DEF StorageInv, StorageTypeOK
  <1>2. StorageTypeOK'
    BY <1>1 DEF StorageInv, StorageTypeOK, Becomes
  <1>3. \A q \in Processes : Equipped(q)'
    BY DEF StorageInv, Equipped, Becomes
  <1>4. OneKeyWriter'
    <2>1. \A q \in Processes \ {p}, t \in Stores : WritesKey(q, t)' <=> WritesKey(q, t)
      BY DEF WritesKey, Becomes
    <2>2. ASSUME NEW q \in Processes, NEW t \in Stores, WritesKey(q, t)'
          PROVE  /\ keyFile'[t] = IF proc'[q].stage = WriteStage(t) THEN Short ELSE proc'[q].key[t]
                 /\ keyFile'[t] # NoFile
                 /\ \A r \in Processes : WritesKey(r, t)' => r = q
      <3>1. CASE q = p
        <4>1. t = s
          BY <2>2, <3>1 DEF WritesKey, Becomes
        <4>2. QED
          BY <1>1, <2>1, <2>2, <3>1, <4>1, StorageAssumption DEF WritesKey, Becomes
      <3>2. CASE q # p
        <4>1. WritesKey(q, t) /\ t # s
          BY <2>1, <2>2, <3>2
        <4>2. ~WritesKey(p, t)'
          BY <4>1 DEF WritesKey, Becomes
        <4>3. QED
          BY <1>1, <2>1, <3>2, <4>1, <4>2 DEF StorageInv, OneKeyWriter, Becomes
      <3>3. QED
        BY <3>1, <3>2
    <2>3. QED
      BY <2>2 DEF OneKeyWriter
  <1>5. OneCopier'
    BY DEF StorageInv, OneCopier, Copies, Becomes
  <1>6. KeysAreKept'
    <2>1. \A q \in Processes : proc[q].key \in [Stores -> Keys]
      BY KeysHeld DEF ProcessStates
    <2>2. \A q \in Processes, t \in Stores :
                proc'[q].key[t] \in {NoFile, proc[q].key[t]} \cup KeysOf(t)'
      BY DEF Becomes
    <2>3. QED
      BY <1>3, <2>1, <2>2, KeepingKeys
  <1>7. ReturnedReceiptsStay'
    BY DEF StorageInv, ReturnedReceiptsStay
  <1>8. QED
    BY <1>2, <1>3, <1>4, <1>5, <1>6, <1>7 DEF StorageInv

(* A key file is created, or found created.                                *)
LEMMA CreateKeyKeeps ==
    ASSUME StorageInv, NEW p \in Processes, NEW s \in Stores, CreateKey(p, s)
    PROVE  StorageInv'
  <1>1. CASE keyFile[s] # NoFile
    BY <1>1, Proceeding
    DEF CreateKey, CreateStage, ReadStage, Stages, Bound, Serving, Writing, Open, KeyOpen, CopyOpen
  <1>2. CASE keyFile[s] = NoFile
    <2> DEFINE x == [proc[p] EXCEPT !.stage = WriteStage(s)]
    <2>1. x.stage = WriteStage(s) /\ x.key = proc[p].key /\ x.job = proc[p].job
      BY KeysHeld DEF ProcessStates
    <2>2. Becomes(p, x)
      BY <1>2, GoingTo DEF CreateKey, StorageInv, WriteStage, Stages
    <2> HIDE DEF x
    <2>3. /\ keyFile' = [keyFile EXCEPT ![s] = Short]
          /\ UNCHANGED <<db, receipts, returned, withdrawn, drawn>>
      BY <1>2 DEF CreateKey
    <2>4. \A q \in Processes \ {p} : ~WritesKey(q, s)
      BY <1>2 DEF StorageInv, OneKeyWriter
    <2>5. x.stage \notin CopyOpen /\ x.stage # SyncStage(s)
      BY <2>1 DEF CopyOpen, WriteStage, SyncStage
    <2>6. \A t \in Stores \ {s} : x.stage \notin {WriteStage(t), SyncStage(t)}
      BY <2>1, StagesDiffer
    <2>7. \A t \in Stores, k \in Nat : k \in KeysOf(t) => k \in KeysOf(t)'
      BY <1>2, <2>3, StorageAssumption DEF KeysOf, StorageInv, StorageTypeOK
    <2>8. Equipped(p)'
      BY <2>1, <2>2, <2>3 DEF StorageInv, Equipped, Becomes, CreateKey, CreateStage, WriteStage,
                              Bound, Serving, Writing
    <2>9. /\ drawn' \in Nat /\ withdrawn'.receipts = withdrawn.receipts
          /\ withdrawn' \in [keys : SUBSET Nat, receipts : SUBSET (Ids \X Sealed)]
          /\ \A t \in Stores : x.key[t] \in {NoFile, proc[p].key[t]} \cup KeysOf(t)'
      BY <2>1, <2>3 DEF StorageInv, StorageTypeOK
    <2>10. QED
      BY <2>2, <2>3, <2>4, <2>5, <2>6, <2>7, <2>8, <2>9, WritingKeeps
  <1>3. QED
    BY <1>1, <1>2

LEMMA WriteKeyKeeps ==
    ASSUME StorageInv, NEW p \in Processes, NEW s \in Stores, WriteKey(p, s)
    PROVE  StorageInv'
  <1> DEFINE x == [proc[p] EXCEPT !.stage = SyncStage(s), !.key[s] = drawn']
  <1>1. /\ drawn' \in Nat /\ proc[p].stage = WriteStage(s) /\ keyFile[s] = Short
        /\ \A q \in Processes \ {p} : ~WritesKey(q, s)
    BY DEF WriteKey, StorageInv, StorageTypeOK, WritesKey, OneKeyWriter
  <1>2. keyFile' = [keyFile EXCEPT ![s] = drawn'] /\ UNCHANGED <<db, receipts, returned, withdrawn>>
    BY DEF WriteKey
  <1>3. /\ x \in ProcessStates /\ x.stage = SyncStage(s) /\ x.job = proc[p].job
        /\ x.key = [proc[p].key EXCEPT ![s] = drawn']
    BY <1>1, KeysHeld DEF ProcessStates, Stages, Keys, SyncStage
  <1>4. proc' = [proc EXCEPT ![p] = x]
    BY DEF WriteKey
  <1> HIDE DEF x
  <1>5. Becomes(p, x)
    BY <1>3, <1>4, Becoming DEF StorageInv
  <1>6. x.key[s] = drawn' /\ \A t \in Stores \ {s} : x.key[t] = proc[p].key[t]
    BY <1>3, KeysHeld DEF ProcessStates
  <1>7. x.stage \notin CopyOpen /\ x.stage # WriteStage(s) /\ drawn' # NoFile
    BY <1>1, <1>3, StorageAssumption DEF CopyOpen, WriteStage, SyncStage
  <1>8. \A t \in Stores \ {s} : x.stage \notin {WriteStage(t), SyncStage(t)}
    BY <1>3, StagesDiffer
  <1>9. \A t \in Stores, k \in Nat : k \in KeysOf(t) => k \in KeysOf(t)'
    BY <1>1, <1>2, StorageAssumption DEF KeysOf, StorageInv, StorageTypeOK
  <1>10. \A t \in Stores : x.key[t] \in {NoFile, proc[p].key[t]} \cup KeysOf(t)'
    BY <1>2, <1>6 DEF KeysOf, StorageInv, StorageTypeOK
  <1>11. Equipped(p)'
    <2>1. proc'[p] = x /\ UNCHANGED db
      BY <1>2, <1>5 DEF Becomes
    <2>2. CASE s = "ledger"
      <3>1. x.stage = "sync ledger" /\ x.key["receipts"] = proc[p].key["receipts"]
        BY <1>3, <1>6, <2>2 DEF SyncStage, Stores
      <3>2. proc[p].key["receipts"] = NoFile
        BY <1>1, <2>2 DEF StorageInv, Equipped, WriteStage, Bound
      <3>3. QED
        BY <2>1, <3>1, <3>2 DEF Equipped, Bound, Serving, Writing
    <2>3. CASE s = "receipts"
      <3>1. x.stage = "sync receipts" /\ x.key["ledger"] = proc[p].key["ledger"]
        BY <1>3, <1>6, <2>3 DEF SyncStage, Stores
      <3>2. proc[p].key["ledger"] = db.fingerprint /\ db.fingerprint # NoFile
        BY <1>1, <2>3 DEF StorageInv, Equipped, WriteStage, Bound
      <3>3. x.key["receipts"] # NoFile
        BY <1>6, <1>7, <2>3
      <3>4. QED
        BY <2>1, <3>1, <3>2, <3>3 DEF Equipped, Bound, Serving, Writing
    <2>4. QED
      BY <2>2, <2>3 DEF Stores
  <1>12. /\ withdrawn' \in [keys : SUBSET Nat, receipts : SUBSET (Ids \X Sealed)]
         /\ withdrawn'.receipts = withdrawn.receipts
    BY <1>2 DEF StorageInv, StorageTypeOK
  <1>13. drawn' \in {NoFile, Short} \cup Nat
    BY <1>1
  <1>14. QED
    BY <1>1, <1>2, <1>5, <1>6, <1>7, <1>8, <1>9, <1>10, <1>11, <1>12, <1>13, WritingKeeps

LEMMA SyncKeyKeeps ==
    ASSUME StorageInv, NEW p \in Processes, NEW s \in Stores, SyncKey(p, s)
    PROVE  StorageInv'
  <1>1. CASE s = "ledger"
    BY <1>1, Proceeding
    DEF SyncKey, SyncStage, ReadStage, Stages, Bound, Serving, Writing, Open, KeyOpen, CopyOpen
  <1>2. CASE s = "receipts"
    BY <1>2, Proceeding
    DEF SyncKey, SyncStage, HeldStage, Stages, Bound, Serving, Writing, Open, KeyOpen, CopyOpen
  <1>3. QED
    BY <1>1, <1>2 DEF Stores

LEMMA WriteKeyFailsKeeps ==
    ASSUME StorageInv, NEW p \in Processes, NEW s \in Stores, WriteKeyFails(p, s)
    PROVE  StorageInv'
  <1> DEFINE x == [Down EXCEPT !.stage = "refused"]
             gone == {k \in {keyFile[s]} : Whole(k)}
  <1>1. x \in ProcessStates /\ x.stage = "refused" /\ \A t \in Stores : x.key[t] = NoFile
    BY NothingHeld DEF ProcessStates, Stages
  <1>2. proc' = [proc EXCEPT ![p] = x]
    BY DEF WriteKeyFails, Refuse
  <1> HIDE DEF x
  <1>3. Becomes(p, x)
    BY <1>1, <1>2, Becoming DEF StorageInv
  <1>4. \A q \in Processes \ {p} : ~WritesKey(q, s)
    BY DEF WriteKeyFails, WritesKey, StorageInv, OneKeyWriter
  <1>5. Equipped(p)'
    BY <1>1, <1>3 DEF Equipped, Becomes, Bound, Serving, Writing, Stores
  <1>6. /\ keyFile' = [keyFile EXCEPT ![s] = NoFile]
        /\ UNCHANGED <<db, receipts, returned, drawn>>
        /\ withdrawn' = [withdrawn EXCEPT !.keys = @ \cup gone]
    BY DEF WriteKeyFails
  <1>7. /\ withdrawn' \in [keys : SUBSET Nat, receipts : SUBSET (Ids \X Sealed)]
        /\ withdrawn'.receipts = withdrawn.receipts /\ withdrawn'.keys = withdrawn.keys \cup gone
    BY <1>6 DEF StorageInv, StorageTypeOK, Whole
  <1>8. \A t \in Stores, k \in Nat : k \in KeysOf(t) => k \in KeysOf(t)'
    BY <1>6, <1>7, StorageAssumption DEF KeysOf, StorageInv, StorageTypeOK, Whole
  <1>9. \A t \in Stores : x.stage \notin {WriteStage(t), SyncStage(t)}
    BY <1>1 DEF WriteStage, SyncStage
  <1>10. x.stage \notin CopyOpen /\ drawn' \in Nat
         /\ \A t \in Stores : x.key[t] \in {NoFile, proc[p].key[t]} \cup KeysOf(t)'
    BY <1>1, <1>6 DEF CopyOpen, StorageInv, StorageTypeOK
  <1>11. QED
    BY <1>3, <1>4, <1>5, <1>6, <1>7, <1>8, <1>9, <1>10, WritingKeeps

(***************************************************************************)
(* Receipts.                                                               *)
(***************************************************************************)

(* The receipts that returned are as they were stored.                     *)
LEMMA ComparingKeeps ==
    ASSUME StorageInv, NEW p \in Processes, NEW id \in Ids, NEW receipt \in Sealed,
           proc[p].stage \in Serving,
           Compare(p, id, receipt),
           UNCHANGED <<db, keyFile, receipts, withdrawn, drawn>>
    PROVE  StorageInv'
  <1> DEFINE x == [proc[p] EXCEPT !.stage = "serving", !.job = NoFile]
  <1>1. x \in ProcessStates /\ x.stage = "serving" /\ x.key = proc[p].key
    BY KeysHeld DEF ProcessStates, Stages
  <1>2. proc' = [proc EXCEPT ![p] = x]
    BY DEF Compare, Return, StorageInv, StorageTypeOK
  <1> HIDE DEF x
  <1>3. Becomes(p, x)
    BY <1>1, <1>2, Becoming DEF StorageInv
  <1>4. Equipped(p)'
    BY <1>1, <1>3 DEF StorageInv, Equipped, Becomes, Bound, Serving, Writing
  <1>5. returned' \in SUBSET (Ids \X Sealed) /\ ReturnedReceiptsStay'
    BY DEF Compare, StorageInv, StorageTypeOK, ReturnedReceiptsStay
  <1>6. StorageTypeOK'
    BY <1>3, <1>5 DEF StorageInv, StorageTypeOK, Becomes
  <1>7. \A q \in Processes : Equipped(q)'
    BY <1>3, <1>4 DEF StorageInv, Equipped, Becomes
  <1>8. OneKeyWriter'
    <2>1. \A t \in Stores : x.stage \notin {WriteStage(t), SyncStage(t)}
      BY <1>1 DEF WriteStage, SyncStage
    <2>2. QED
      BY <1>3, <2>1 DEF StorageInv, OneKeyWriter, WritesKey, Becomes
  <1>9. OneCopier'
    BY <1>1, <1>3 DEF StorageInv, OneCopier, Copies, CopyOpen, Becomes
  <1>10. KeysAreKept'
    BY <1>1, <1>3 DEF StorageInv, KeysAreKept, KeysOf, Becomes
  <1>11. QED
    BY <1>5, <1>6, <1>7, <1>8, <1>9, <1>10 DEF StorageInv

(* A write ends without a receipt that returned.                           *)
LEMMA Returning ==
    ASSUME StorageInv, NEW p \in Processes, Return(p)
    PROVE  LET x == [proc[p] EXCEPT !.stage = "serving", !.job = NoFile] IN
           Becomes(p, x) /\ x.stage = "serving" /\ x.key = proc[p].key
  <1> DEFINE x == [proc[p] EXCEPT !.stage = "serving", !.job = NoFile]
  <1>1. x \in ProcessStates /\ x.stage = "serving" /\ x.key = proc[p].key
    BY KeysHeld DEF ProcessStates, Stages
  <1>2. proc' = [proc EXCEPT ![p] = x]
    BY DEF Return, StorageInv, StorageTypeOK
  <1> HIDE DEF x
  <1>3. Becomes(p, x)
    BY <1>1, <1>2, Becoming DEF StorageInv
  <1>4. QED
    BY <1>1, <1>3 DEF x

LEMMA ReturningKeeps ==
    ASSUME StorageInv, NEW p \in Processes, Return(p), proc[p].stage \in Serving,
           UNCHANGED <<db, keyFile, receipts, returned, withdrawn, drawn>>
    PROVE  StorageInv'
  <1>1. PICK x : Becomes(p, x) /\ x.stage = "serving" /\ x.key = proc[p].key
    BY Returning
  <1>2. Equipped(p)'
    BY <1>1 DEF StorageInv, Equipped, Becomes, Bound, Serving, Writing
  <1>3. Quiet(p, x)
    BY <1>1, <1>2, KeysHeld DEF Quiet, Open, KeyOpen, CopyOpen
  <1>4. QED
    BY <1>3, Staying

(* What a process writes, and where.                                       *)
LEMMA JobHeld ==
    ASSUME StorageInv, NEW p \in Processes, proc[p].stage \in Writing
    PROVE  /\ proc[p].job.id \in Ids /\ proc[p].job.receipt \in Sealed
           /\ proc[p].job.receipt.key \in KeysOf("receipts")
           /\ Whole(proc[p].job.receipt)
  <1>1. proc[p].job \in Jobs /\ proc[p].job.receipt.key = proc[p].key["receipts"]
    BY DEF StorageInv, Equipped
  <1>2. proc[p].key["receipts"] \in KeysOf("receipts")
    BY KeyIsKept DEF StorageInv, Equipped, Writing, Serving, Stores
  <1>3. QED
    BY <1>1, <1>2, StorageAssumption DEF Jobs, Whole

(* A file that no receipt is in is created or written, or the one who      *)
(* copies a receipt removes it.                                            *)
LEMMA StoringKeeps ==
    ASSUME StorageInv, NEW p \in Processes, NEW x, Becomes(p, x), x.key = proc[p].key,
           x.stage \notin KeyOpen,
           NEW id \in Ids, \A q \in Processes \ {p} : ~Copies(q, id),
           NEW file \in {NoFile, Short} \cup Sealed, receipts' = [receipts EXCEPT ![id] = file],
           Whole(file) => file.key \in KeysOf("receipts"),
           x.stage = "copy" => file = Short /\ x.job.id = id,
           x.stage = "sync" => file = x.job.receipt /\ x.job.id = id,
           NEW gone \in SUBSET (Ids \X Sealed),
           withdrawn' = [withdrawn EXCEPT !.receipts = @ \cup gone],
           receipts[id] \in Sealed => <<id, receipts[id]>> \in gone,
           UNCHANGED <<db, keyFile, returned, drawn>>,
           Equipped(p)'
    PROVE  StorageInv'
  <1>1. /\ receipts' \in [Ids -> {NoFile, Short} \cup Sealed] /\ receipts'[id] = file
        /\ \A i \in Ids \ {id} : receipts'[i] = receipts[i]
    BY DEF StorageInv, StorageTypeOK
  <1>2. /\ withdrawn' \in [keys : SUBSET Nat, receipts : SUBSET (Ids \X Sealed)]
        /\ withdrawn'.keys = withdrawn.keys
        /\ withdrawn'.receipts = withdrawn.receipts \cup gone
    BY DEF StorageInv, StorageTypeOK
  <1>3. StorageTypeOK'
    BY <1>1, <1>2 DEF StorageInv, StorageTypeOK, Becomes
  <1>4. \A q \in Processes : Equipped(q)'
    BY DEF StorageInv, Equipped, Becomes
  <1>5. OneKeyWriter'
    <2>1. ~\E s \in Stores : WritesKey(p, s)'
      BY DEF WritesKey, WriteStage, SyncStage, Becomes, KeyOpen
    <2>2. QED
      BY <2>1 DEF StorageInv, OneKeyWriter, WritesKey, Becomes
  <1>6. OneCopier'
    <2>1. \A q \in Processes \ {p}, i \in Ids : Copies(q, i)' <=> Copies(q, i)
      BY DEF Copies, Becomes
    <2>2. ASSUME NEW i \in Ids, Copies(p, i)'
          PROVE  i = id /\ file = IF x.stage = "copy" THEN Short ELSE x.job.receipt
      BY <2>2 DEF Copies, CopyOpen, Becomes
    <2>3. ASSUME NEW q \in Processes, NEW i \in Ids, Copies(q, i)'
          PROVE  /\ receipts'[i] = IF proc'[q].stage = "copy" THEN Short ELSE proc'[q].job.receipt
                 /\ \A r \in Processes : Copies(r, i)' => r = q
      <3>1. CASE q = p
        <4>1. proc'[q] = x /\ i = id /\ file = IF x.stage = "copy" THEN Short ELSE x.job.receipt
          BY <2>2, <2>3, <3>1 DEF Becomes
        <4>2. QED
          BY <1>1, <2>1, <3>1, <4>1
      <3>2. CASE q # p
        <4>1. Copies(q, i) /\ i # id /\ proc'[q] = proc[q]
          BY <2>1, <2>3, <3>2 DEF Becomes
        <4>2. ~Copies(p, i)'
          BY <2>2, <4>1
        <4>3. QED
          BY <1>1, <2>1, <4>1, <4>2 DEF StorageInv, OneCopier
      <3>3. QED
        BY <3>1, <3>2
    <2>4. QED
      BY <2>3 DEF OneCopier
  <1>7. KeysAreKept'
    <2>1. \A s \in Stores : KeysOf(s)' = KeysOf(s)
      BY <1>2 DEF KeysOf
    <2>2. "ledger" \in Stores /\ "receipts" \in Stores
      BY DEF Stores
    <2>3. \A q \in Processes : proc'[q].key = proc[q].key
      BY DEF Becomes
    <2>4. \A i \in Ids : Whole(receipts'[i]) => receipts'[i].key \in KeysOf("receipts")
      BY <1>1 DEF StorageInv, KeysAreKept
    <2>5. QED
      BY <2>1, <2>2, <2>3, <2>4 DEF StorageInv, KeysAreKept
  <1>8. ReturnedReceiptsStay'
    BY <1>1, <1>2 DEF StorageInv, StorageTypeOK, ReturnedReceiptsStay
  <1>9. QED
    BY <1>3, <1>4, <1>5, <1>6, <1>7, <1>8 DEF StorageInv

(* The same when nothing whole was there, and nothing is withdrawn.        *)
LEMMA PlacingKeeps ==
    ASSUME StorageInv, NEW p \in Processes, NEW x, Becomes(p, x), x.key = proc[p].key,
           x.stage \notin KeyOpen,
           NEW id \in Ids, \A q \in Processes \ {p} : ~Copies(q, id),
           NEW file \in {Short} \cup Sealed, receipts' = [receipts EXCEPT ![id] = file],
           Whole(file) => file.key \in KeysOf("receipts"),
           x.stage = "copy" => file = Short /\ x.job.id = id,
           x.stage = "sync" => file = x.job.receipt /\ x.job.id = id,
           receipts[id] \in {NoFile, Short},
           UNCHANGED <<db, keyFile, returned, withdrawn, drawn>>,
           Equipped(p)'
    PROVE  StorageInv'
  <1> DEFINE gone == {}
  <1>1. gone \in SUBSET (Ids \X Sealed) /\ withdrawn' = [withdrawn EXCEPT !.receipts = @ \cup gone]
    BY DEF StorageInv, StorageTypeOK
  <1>2. receipts[id] \notin Sealed
    BY StorageAssumption
  <1> HIDE DEF gone
  <1>3. QED
    BY <1>1, <1>2, StoringKeeps

(* The process goes on to write or to verify what it writes.               *)
LEMMA GoingOn ==
    ASSUME StorageInv, NEW p \in Processes, proc[p].stage \in Writing, UNCHANGED db,
           NEW stage \in {"copy", "sync", "verify"}, Goto(p, stage)
    PROVE  LET x == [proc[p] EXCEPT !.stage = stage] IN
           /\ Becomes(p, x) /\ x.stage = stage /\ x.key = proc[p].key /\ x.job = proc[p].job
           /\ Equipped(p)' /\ x.stage \notin KeyOpen
  <1> DEFINE x == [proc[p] EXCEPT !.stage = stage]
  <1>1. x.stage = stage /\ x.key = proc[p].key /\ x.job = proc[p].job
    BY KeysHeld DEF ProcessStates
  <1>2. Becomes(p, x)
    BY GoingTo DEF StorageInv, Stages
  <1> HIDE DEF x
  <1>3. Equipped(p)'
    BY <1>1, <1>2 DEF StorageInv, Equipped, Becomes, Bound, Serving, Writing
  <1>4. x.stage \notin KeyOpen
    BY <1>1 DEF KeyOpen
  <1>5. QED
    BY <1>1, <1>2, <1>3, <1>4 DEF x

(* Nobody copies a receipt that is not there.                              *)
LEMMA NobodyCopies ==
    ASSUME StorageInv, NEW id \in Ids, receipts[id] = NoFile
    PROVE  \A q \in Processes : ~Copies(q, id)
  <1> SUFFICES ASSUME NEW q \in Processes, Copies(q, id) PROVE FALSE
    OBVIOUS
  <1>1. proc[q].job.receipt # NoFile
    BY JobHeld DEF Copies, CopyOpen, Writing, Whole
  <1>2. QED
    BY <1>1, StorageAssumption DEF StorageInv, OneCopier

LEMMA LinkKeeps ==
    ASSUME StorageInv, NEW p \in Processes, Link(p)
    PROVE  StorageInv'
  <1> DEFINE id == proc[p].job.id
             receipt == proc[p].job.receipt
  <1>1. proc[p].stage = "link" /\ UNCHANGED <<db, keyFile, returned, withdrawn, drawn>>
    BY DEF Link
  <1>2. proc[p].stage \in Writing /\ proc[p].stage \in Serving /\ proc[p].stage \in Bound
    BY <1>1 DEF Writing, Serving, Bound
  <1>3. CASE receipts[id] = NoFile
    <2>1. receipts' = [receipts EXCEPT ![id] = receipt] /\ Goto(p, "verify")
      BY <1>3 DEF Link
    <2>2. PICK x : /\ Becomes(p, x) /\ x.stage = "verify" /\ x.key = proc[p].key
                   /\ Equipped(p)' /\ x.stage \notin KeyOpen
      BY <1>1, <1>2, <2>1, GoingOn
    <2>3. id \in Ids /\ receipt \in Sealed /\ receipt.key \in KeysOf("receipts")
      BY <1>2, JobHeld
    <2> HIDE DEF id, receipt
    <2>4. QED
      BY <1>1, <1>3, <2>1, <2>2, <2>3, NobodyCopies, PlacingKeeps
  <1>4. CASE receipts[id] # NoFile
    <2>1. UNCHANGED receipts /\ (Goto(p, "verify") \/ Return(p))
      BY <1>4 DEF Link
    <2>2. CASE Return(p)
      BY <1>1, <1>2, <2>1, <2>2, ReturningKeeps
    <2>3. CASE Goto(p, "verify")
      BY <1>1, <1>2, <2>1, <2>3, Proceeding
      DEF Stages, Bound, Serving, Writing, Open, KeyOpen, CopyOpen
    <2>4. QED
      BY <2>1, <2>2, <2>3
  <1>5. QED
    BY <1>3, <1>4

LEMMA CopyStartsKeeps ==
    ASSUME StorageInv, NEW p \in Processes, CopyStarts(p)
    PROVE  StorageInv'
  <1> DEFINE id == proc[p].job.id
  <1>1. proc[p].stage = "link" /\ UNCHANGED <<db, keyFile, returned, withdrawn, drawn>>
    BY DEF CopyStarts
  <1>2. proc[p].stage \in Writing /\ proc[p].stage \in Serving
    BY <1>1 DEF Writing, Serving
  <1>3. CASE receipts[id] = NoFile
    <2>1. receipts' = [receipts EXCEPT ![id] = Short] /\ Goto(p, "copy")
      BY <1>3 DEF CopyStarts
    <2>2. PICK x : /\ Becomes(p, x) /\ x.stage = "copy" /\ x.key = proc[p].key
                   /\ x.job = proc[p].job
                   /\ Equipped(p)' /\ x.stage \notin KeyOpen
      BY <1>1, <1>2, <2>1, GoingOn
    <2>3. id \in Ids /\ x.job.id = id
      BY <1>2, <2>2, JobHeld
    <2>4. ~Whole(Short)
      BY DEF Whole
    <2> HIDE DEF id
    <2>5. QED
      BY <1>1, <1>3, <2>1, <2>2, <2>3, <2>4, NobodyCopies, PlacingKeeps
  <1>4. CASE receipts[id] # NoFile
    BY <1>1, <1>2, <1>4, ReturningKeeps DEF CopyStarts
  <1>5. QED
    BY <1>3, <1>4

(* A receipt that is being copied is of no one else.                       *)
LEMMA Copying ==
    ASSUME StorageInv, NEW p \in Processes, proc[p].stage \in CopyOpen
    PROVE  LET id == proc[p].job.id IN
           /\ id \in Ids /\ \A q \in Processes \ {p} : ~Copies(q, id)
           /\ receipts[id] = IF proc[p].stage = "copy" THEN Short ELSE proc[p].job.receipt
  <1>1. proc[p].job.id \in Ids
    BY JobHeld DEF Writing, CopyOpen
  <1>2. QED
    BY <1>1 DEF Copies, StorageInv, OneCopier

LEMMA CopyKeeps ==
    ASSUME StorageInv, NEW p \in Processes, Copy(p)
    PROVE  StorageInv'
  <1> DEFINE id == proc[p].job.id
             receipt == proc[p].job.receipt
  <1>1. /\ proc[p].stage = "copy" /\ UNCHANGED <<db, keyFile, returned, withdrawn, drawn>>
        /\ receipts' = [receipts EXCEPT ![id] = receipt] /\ Goto(p, "sync")
    BY DEF Copy
  <1>2. proc[p].stage \in Writing /\ proc[p].stage \in CopyOpen
    BY <1>1 DEF Writing, CopyOpen
  <1>3. PICK x : /\ Becomes(p, x) /\ x.stage = "sync" /\ x.key = proc[p].key
                 /\ x.job = proc[p].job
                 /\ Equipped(p)' /\ x.stage \notin KeyOpen
    BY <1>1, <1>2, GoingOn
  <1>4. /\ receipt \in Sealed /\ receipt.key \in KeysOf("receipts")
        /\ receipt = x.job.receipt /\ id = x.job.id
    BY <1>2, <1>3, JobHeld
  <1>5. id \in Ids /\ receipts[id] = Short /\ \A q \in Processes \ {p} : ~Copies(q, id)
    BY <1>1, <1>2, Copying
  <1> HIDE DEF id, receipt
  <1>6. QED
    BY <1>1, <1>3, <1>4, <1>5, PlacingKeeps

LEMMA SyncCopyKeeps ==
    ASSUME StorageInv, NEW p \in Processes, SyncCopy(p)
    PROVE  StorageInv'
  BY Proceeding DEF SyncCopy, Stages, Bound, Serving, Writing, Open, KeyOpen, CopyOpen

LEMMA CopyFailsKeeps ==
    ASSUME StorageInv, NEW p \in Processes, CopyFails(p)
    PROVE  StorageInv'
  <1> DEFINE id == proc[p].job.id
             gone == {w \in {<<id, receipts[id]>>} : Whole(w[2])}
  <1>1. /\ proc[p].stage \in CopyOpen /\ UNCHANGED <<db, keyFile, returned, drawn>>
        /\ receipts' = [receipts EXCEPT ![id] = NoFile] /\ Return(p)
        /\ withdrawn' = [withdrawn EXCEPT !.receipts = @ \cup gone]
    BY DEF CopyFails, CopyOpen
  <1>2. PICK x : Becomes(p, x) /\ x.stage = "serving" /\ x.key = proc[p].key
    BY <1>1, Returning
  <1>3. Equipped(p)' /\ x.stage \notin KeyOpen
    BY <1>1, <1>2
    DEF StorageInv, Equipped, Becomes, Bound, Serving, Writing, KeyOpen, CopyOpen
  <1>4. id \in Ids /\ \A q \in Processes \ {p} : ~Copies(q, id)
    BY <1>1, Copying
  <1>5. ~Whole(NoFile)
    BY DEF Whole
  <1>6. /\ gone \in SUBSET (Ids \X Sealed)
        /\ receipts[id] \in Sealed => <<id, receipts[id]>> \in gone
    BY <1>4, StorageAssumption DEF StorageInv, StorageTypeOK, Whole
  <1> HIDE DEF id, gone
  <1>7. QED
    BY <1>1, <1>2, <1>3, <1>4, <1>5, <1>6, StoringKeeps

LEMMA WriteFailsKeeps ==
    ASSUME StorageInv, NEW p \in Processes, WriteFails(p)
    PROVE  StorageInv'
  BY ReturningKeeps DEF WriteFails, Serving

LEMMA StartWriteKeeps ==
    ASSUME StorageInv, NEW p \in Processes, StartWrite(p)
    PROVE  StorageInv'
  <1>1. proc[p].stage = "serving" /\ UNCHANGED <<db, keyFile, receipts, withdrawn, drawn>>
    BY DEF StartWrite
  <1>2. PICK id \in Ids, content \in Contents :
            IF receipts[id] = NoFile
            THEN /\ proc' = [proc EXCEPT ![p].stage = "link",
                                         ![p].job = [id |-> id, receipt |-> Receipt(p, content)]]
                 /\ UNCHANGED returned
            ELSE Compare(p, id, Receipt(p, content))
    BY DEF StartWrite
  <1> DEFINE receipt == Receipt(p, content)
  <1>3. receipt \in Sealed /\ receipt.key = proc[p].key["receipts"]
    <2>1. proc[p].key["receipts"] \in Nat
      BY <1>1, KeyIsKept DEF StorageInv, Equipped, Serving, Stores
    <2>2. QED
      BY <2>1 DEF Receipt, Sealed
  <1> HIDE DEF receipt
  <1>4. CASE receipts[id] # NoFile
    BY <1>1, <1>2, <1>3, <1>4, ComparingKeeps DEF Serving, receipt
  <1>5. CASE receipts[id] = NoFile
    <2> DEFINE job == [id |-> id, receipt |-> receipt]
               x == [proc[p] EXCEPT !.stage = "link", !.job = job]
    <2>1. job \in Jobs /\ job.receipt = receipt
      BY <1>3 DEF Jobs
    <2>2. proc' = [proc EXCEPT ![p].stage = "link", ![p].job = job] /\ UNCHANGED returned
      BY <1>2, <1>5 DEF receipt
    <2> HIDE DEF job
    <2>3. x \in ProcessStates /\ x.stage = "link" /\ x.key = proc[p].key /\ x.job = job
      BY <2>1, KeysHeld DEF ProcessStates, Stages
    <2>4. proc' = [proc EXCEPT ![p] = x]
      BY <2>2 DEF StorageInv, StorageTypeOK
    <2> HIDE DEF x
    <2>5. Becomes(p, x)
      BY <2>3, <2>4, Becoming DEF StorageInv
    <2>6. Equipped(p)'
      BY <1>1, <1>3, <2>1, <2>3, <2>5
      DEF StorageInv, Equipped, Becomes, Bound, Serving, Writing
    <2>7. Quiet(p, x)
      BY <1>1, <2>2, <2>3, <2>5, <2>6, KeysHeld DEF Quiet, Open, KeyOpen, CopyOpen
    <2>8. QED
      BY <2>7, Staying
  <1>6. QED
    BY <1>4, <1>5

LEMMA VerifyStoredKeeps ==
    ASSUME StorageInv, NEW p \in Processes, VerifyStored(p)
    PROVE  StorageInv'
  <1>1. proc[p].stage \in Serving /\ proc[p].stage \in Writing
    BY DEF VerifyStored, Serving, Writing
  <1>2. proc[p].job.id \in Ids /\ proc[p].job.receipt \in Sealed
    BY <1>1, JobHeld
  <1>3. QED
    BY <1>1, <1>2, ComparingKeeps DEF VerifyStored

(***************************************************************************)
(* Every step, and the theorems.                                           *)
(***************************************************************************)

LEMMA StorageStep == StorageInv /\ [StorageNext]_storageVars => StorageInv'
  <1> SUFFICES ASSUME StorageInv, [StorageNext]_storageVars PROVE StorageInv'
    OBVIOUS
  <1>1. CASE UNCHANGED storageVars
    <2>1. StorageTypeOK'
      BY <1>1 DEF storageVars, StorageInv, StorageTypeOK
    <2>2. \A p \in Processes : Equipped(p)'
      BY <1>1 DEF storageVars, StorageInv, Equipped
    <2>3. OneKeyWriter' /\ OneCopier'
      BY <1>1 DEF storageVars, StorageInv, OneKeyWriter, WritesKey, OneCopier, Copies
    <2>4. KeysAreKept' /\ ReturnedReceiptsStay'
      BY <1>1 DEF storageVars, StorageInv, KeysAreKept, KeysOf, ReturnedReceiptsStay
    <2>5. QED
      BY <2>1, <2>2, <2>3, <2>4 DEF StorageInv
  <1>2. ASSUME NEW p \in Processes, ProcessStep(p) PROVE StorageInv'
    <2>1. CASE ReadVersion(p)
      BY <2>1, ReadVersionKeeps
    <2>2. CASE Migrate(p)
      BY <2>2, MigrateKeeps
    <2>3. CASE FindCohortKey(p) \/ FindIntegrityKey(p)
      BY <2>3, FindingKeeps
    <2>4. CASE Bind(p)
      BY <2>4, BindKeeps
    <2>5. ASSUME NEW s \in Stores,
                 \/ CreateKey(p, s) \/ WriteKey(p, s) \/ SyncKey(p, s)
                 \/ WriteKeyFails(p, s) \/ ReadKey(p, s)
          PROVE  StorageInv'
      BY <2>5, CreateKeyKeeps, WriteKeyKeeps, SyncKeyKeeps, WriteKeyFailsKeeps, ReadKeyKeeps
    <2>6. CASE RecordRelease(p)
      BY <2>6, RecordReleaseKeeps
    <2>7. CASE StartWrite(p)
      BY <2>7, StartWriteKeeps
    <2>8. CASE Link(p)
      BY <2>8, LinkKeeps
    <2>9. CASE CopyStarts(p) \/ Copy(p) \/ SyncCopy(p) \/ CopyFails(p)
      BY <2>9, CopyStartsKeeps, CopyKeeps, SyncCopyKeeps, CopyFailsKeeps
    <2>10. CASE VerifyStored(p) \/ WriteFails(p)
      BY <2>10, VerifyStoredKeeps, WriteFailsKeeps
    <2>11. CASE Crash(p) \/ Restart(p)
      BY <2>11, Leaving DEF Crash, Restart
    <2>12. QED
      BY <1>2, <2>1, <2>2, <2>3, <2>4, <2>5, <2>6, <2>7, <2>8, <2>9, <2>10, <2>11
      DEF ProcessStep
  <1>3. QED
    BY <1>1, <1>2 DEF StorageNext

(* Processes that start, crash and start again in any number and order     *)
(* keep the invariant (disclosure/ledger.py, receipts/writer.py).          *)
THEOREM StorageInvariant == StorageSpec => []StorageInv
  <1>1. QED
    BY StorageInitially, StorageStep, PTL DEF StorageSpec

(* Every process that serves goes by one cohort key, the one cohorts were  *)
(* recorded under, and every key in use is in its file, unless its writer  *)
(* failed to sync it and withdrew it.                                      *)
THEOREM KeysHold == StorageSpec => []KeysAreKept
  <1>1. StorageInv => KeysAreKept
    BY DEF StorageInv
  <1>2. QED
    BY <1>1, StorageInvariant, PTL

(* A receipt whose write returned is never lost, replaced or cut short,    *)
(* unless the writer of the file failed to sync it and withdrew it.        *)
THEOREM ReceiptsStay == StorageSpec => []ReturnedReceiptsStay
  <1>1. StorageInv => ReturnedReceiptsStay
    BY DEF StorageInv
  <1>2. QED
    BY <1>1, StorageInvariant, PTL
=============================================================================
