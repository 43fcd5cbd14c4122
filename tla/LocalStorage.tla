----------------------------- MODULE LocalStorage -----------------------------
(***************************************************************************)
(* What processes that start, crash and start again leave on disk: the     *)
(* schema version, cohort key and key fingerprint of disclosure/ledger.py, *)
(* and the integrity key and receipts of receipts/writer.py.               *)
(*                                                                         *)
(* A file is NoFile, Short (created, not yet written or only in part) or   *)
(* what it holds, which every process sees as soon as it is flushed; the   *)
(* writer may still fail to sync it, and then removes it.  A crash is that *)
(* of a process: what it wrote stays.                                      *)
(* Keys are numbers, drawn once each.  A receipt is sealed by the key of   *)
(* its store.  An integrity key given by the caller or the environment     *)
(* leaves no file and is not modelled.                                     *)
(***************************************************************************)
EXTENDS Naturals, FiniteSets

CONSTANTS
    Processes,
    Ids,            \* receipt ids
    Contents,       \* contents of receipts
    NoFile, Short,
    MaxFaults       \* bound on crashes and failed writes

Sealed == [content : Contents, key : Nat]

ASSUME StorageAssumption ==
    /\ NoFile # Short
    /\ {NoFile, Short} \cap Nat = {}
    /\ NoFile \notin Sealed /\ Short \notin Sealed

VARIABLES
    db,             \* [version, fingerprint, recorded]: the ledger's database
    keyFile,        \* the key files of the ledger and of the receipt store
    receipts,       \* the file of each receipt id
    proc,           \* [stage, version, key, job] of each process
    returned,       \* the receipts whose write returned
    withdrawn,      \* keys and receipts removed after they could be read whole
    drawn, faults

storageVars == <<db, keyFile, receipts, proc, returned, withdrawn, drawn, faults>>

SchemaVersion == 2
Stores == {"ledger", "receipts"}
Whole(file) == file \notin {NoFile, Short}

Down == [stage |-> "start", version |-> 0, key |-> [s \in Stores |-> NoFile], job |-> NoFile]

StorageInit ==
    /\ db \in {[version |-> v, fingerprint |-> NoFile, recorded |-> {}] : v \in {0, 1}}
    /\ keyFile = [s \in Stores |-> NoFile]
    /\ receipts = [i \in Ids |-> NoFile]
    /\ proc = [p \in Processes |-> Down]
    /\ returned = {}
    /\ withdrawn = [keys |-> {}, receipts |-> {}]
    /\ drawn = 0 /\ faults = 0

Goto(p, stage) == proc' = [proc EXCEPT ![p].stage = stage]
Refuse(p) == proc' = [proc EXCEPT ![p] = [Down EXCEPT !.stage = "refused"]]

Fault ==
    /\ faults < MaxFaults
    /\ faults' = faults + 1

-----------------------------------------------------------------------------
(* DisclosureLedger.__init__.  The version a process goes by is the one it *)
(* reads before it creates the schema; SQLite commits each statement.      *)

ReadVersion(p) ==
    /\ proc[p].stage = "start"
    /\ proc' = [proc EXCEPT ![p].stage = "migrate", ![p].version = db.version]
    /\ UNCHANGED <<db, keyFile, receipts, returned, withdrawn, drawn, faults>>

Migrate(p) ==
    /\ proc[p].stage = "migrate"
    /\ db' = [db EXCEPT !.version = SchemaVersion]
    /\ proc' = [proc EXCEPT ![p].stage = "find ledger"]
    /\ UNCHANGED <<keyFile, receipts, returned, withdrawn, drawn, faults>>

(* The start of _load_or_create_cohort_key.                                *)
FindCohortKey(p) ==
    /\ proc[p].stage = "find ledger"
    /\ \/ keyFile["ledger"] # NoFile /\ Goto(p, "read ledger")
       \/ /\ keyFile["ledger"] = NoFile
          /\ IF proc[p].version >= SchemaVersion THEN Refuse(p) ELSE Goto(p, "create ledger")
    /\ UNCHANGED <<db, keyFile, receipts, returned, withdrawn, drawn, faults>>

(* The start of _load_or_create_integrity_key_file.                        *)
FindIntegrityKey(p) ==
    /\ proc[p].stage = "find receipts"
    /\ \/ keyFile["receipts"] # NoFile /\ Goto(p, "read receipts")
       \/ /\ keyFile["receipts"] = NoFile
          /\ IF \E i \in Ids : receipts[i] # NoFile THEN Refuse(p) ELSE Goto(p, "create receipts")
    /\ UNCHANGED <<db, keyFile, receipts, returned, withdrawn, drawn, faults>>

CreateStage(s) == IF s = "ledger" THEN "create ledger" ELSE "create receipts"
WriteStage(s) == IF s = "ledger" THEN "write ledger" ELSE "write receipts"
SyncStage(s) == IF s = "ledger" THEN "sync ledger" ELSE "sync receipts"
ReadStage(s) == IF s = "ledger" THEN "read ledger" ELSE "read receipts"
HeldStage(s) == IF s = "ledger" THEN "bind" ELSE "serving"

(* What a bug would make of it: the file is opened to be written, whether  *)
(* it exists or not.                                                       *)
MutCreateKey(p, s) ==
    /\ proc[p].stage = CreateStage(s)
    /\ keyFile' = [keyFile EXCEPT ![s] = Short]
    /\ Goto(p, WriteStage(s))
    /\ UNCHANGED <<db, receipts, returned, withdrawn, drawn, faults>>

(* The file is created exclusively, and read when another process was      *)
(* faster.                                                                 *)
CreateKey(p, s) ==
    /\ proc[p].stage = CreateStage(s)
    /\ IF keyFile[s] = NoFile
       THEN keyFile' = [keyFile EXCEPT ![s] = Short] /\ Goto(p, WriteStage(s))
       ELSE Goto(p, ReadStage(s)) /\ UNCHANGED keyFile
    /\ UNCHANGED <<db, receipts, returned, withdrawn, drawn, faults>>

(* The key is written and flushed.                                         *)
WriteKey(p, s) ==
    /\ proc[p].stage = WriteStage(s)
    /\ drawn' = drawn + 1
    /\ keyFile' = [keyFile EXCEPT ![s] = drawn']
    /\ proc' = [proc EXCEPT ![p] = [@ EXCEPT !.stage = SyncStage(s), !.key[s] = drawn']]
    /\ UNCHANGED <<db, receipts, returned, withdrawn, faults>>

(* The ledger reads what it has written, the receipt store does not.       *)
SyncKey(p, s) ==
    /\ proc[p].stage = SyncStage(s)
    /\ Goto(p, IF s = "ledger" THEN ReadStage(s) ELSE HeldStage(s))
    /\ UNCHANGED <<db, keyFile, receipts, returned, withdrawn, drawn, faults>>

(* Writing, flushing or syncing fails: the file is removed, although other *)
(* processes may have read it when only the sync failed.                   *)
WriteKeyFails(p, s) ==
    /\ proc[p].stage \in {WriteStage(s), SyncStage(s)}
    /\ Fault
    /\ keyFile' = [keyFile EXCEPT ![s] = NoFile]
    /\ withdrawn' = [withdrawn EXCEPT !.keys = @ \cup {k \in {keyFile[s]} : Whole(k)}]
    /\ Refuse(p)
    /\ UNCHANGED <<db, receipts, returned, drawn>>

ReadKey(p, s) ==
    /\ proc[p].stage = ReadStage(s)
    /\ IF Whole(keyFile[s])
       THEN proc' = [proc EXCEPT ![p].stage = HeldStage(s), ![p].key[s] = keyFile[s]]
       ELSE Refuse(p)
    /\ UNCHANGED <<db, keyFile, receipts, returned, withdrawn, drawn, faults>>

(* _bind_cohort_key_fingerprint, in one transaction.                       *)
Bind(p) ==
    /\ proc[p].stage = "bind"
    /\ IF db.fingerprint \in {NoFile, proc[p].key["ledger"]}
       THEN /\ db' = [db EXCEPT !.fingerprint = proc[p].key["ledger"]]
            /\ Goto(p, "find receipts")
       ELSE Refuse(p) /\ UNCHANGED db
    /\ UNCHANGED <<keyFile, receipts, returned, withdrawn, drawn, faults>>

(* A release is recorded, with cohorts under the key of the process.       *)
RecordRelease(p) ==
    /\ proc[p].stage = "serving"
    /\ db' = [db EXCEPT !.recorded = @ \cup {proc[p].key["ledger"]}]
    /\ UNCHANGED <<keyFile, receipts, proc, returned, withdrawn, drawn, faults>>

-----------------------------------------------------------------------------
(* ReceiptStore.write.                                                     *)

Receipt(p, content) == [content |-> content, key |-> proc[p].key["receipts"]]
Return(p) == proc' = [proc EXCEPT ![p].stage = "serving", ![p].job = NoFile]

(* The file is there: what was stored before must be the same.             *)
Compare(p, id, receipt) ==
    /\ returned' = IF receipts[id] = receipt THEN returned \cup {<<id, receipt>>} ELSE returned
    /\ Return(p)

StartWrite(p) ==
    /\ proc[p].stage = "serving"
    /\ \E id \in Ids, content \in Contents :
        IF receipts[id] = NoFile
        THEN /\ proc' = [proc EXCEPT ![p].stage = "link",
                                     ![p].job = [id |-> id, receipt |-> Receipt(p, content)]]
             /\ UNCHANGED returned
        ELSE Compare(p, id, Receipt(p, content))
    /\ UNCHANGED <<db, keyFile, receipts, withdrawn, drawn, faults>>

(* The temporary file is linked to its name, and read back.                *)
Link(p) ==
    LET job == proc[p].job IN
    /\ proc[p].stage = "link"
    /\ IF receipts[job.id] = NoFile
       THEN /\ receipts' = [receipts EXCEPT ![job.id] = job.receipt]
            /\ Goto(p, "verify")
       ELSE /\ UNCHANGED receipts
            /\ IF receipts[job.id] = job.receipt THEN Goto(p, "verify") ELSE Return(p)
    /\ UNCHANGED <<db, keyFile, returned, withdrawn, drawn, faults>>

(* What a bug would make of it: an existing file is opened as well.        *)
MutCopyStarts(p) ==
    /\ proc[p].stage = "link"
    /\ receipts' = [receipts EXCEPT ![proc[p].job.id] = Short]
    /\ Goto(p, "copy")
    /\ UNCHANGED <<db, keyFile, returned, withdrawn, drawn, faults>>

(* Links are not supported: the receipt is copied, in a file that must not *)
(* exist.                                                                  *)
CopyStarts(p) ==
    /\ proc[p].stage = "link"
    /\ IF receipts[proc[p].job.id] = NoFile
       THEN receipts' = [receipts EXCEPT ![proc[p].job.id] = Short] /\ Goto(p, "copy")
       ELSE Return(p) /\ UNCHANGED receipts
    /\ UNCHANGED <<db, keyFile, returned, withdrawn, drawn, faults>>

(* It is written and flushed; then the file is synced.                     *)
Copy(p) ==
    /\ proc[p].stage = "copy"
    /\ receipts' = [receipts EXCEPT ![proc[p].job.id] = proc[p].job.receipt]
    /\ Goto(p, "sync")
    /\ UNCHANGED <<db, keyFile, returned, withdrawn, drawn, faults>>

SyncCopy(p) ==
    /\ proc[p].stage = "sync"
    /\ Goto(p, "verify")
    /\ UNCHANGED <<db, keyFile, receipts, returned, withdrawn, drawn, faults>>

(* The target is removed, although another writer may have found the same  *)
(* receipt there and returned when only the sync failed.                   *)
CopyFails(p) ==
    LET id == proc[p].job.id IN
    /\ proc[p].stage \in {"copy", "sync"}
    /\ Fault
    /\ receipts' = [receipts EXCEPT ![id] = NoFile]
    /\ withdrawn' = [withdrawn EXCEPT !.receipts =
                        @ \cup {w \in {<<id, receipts[id]>>} : Whole(w[2])}]
    /\ Return(p)
    /\ UNCHANGED <<db, keyFile, returned, drawn>>

(* The temporary file cannot be written, or the stored one not read: the   *)
(* target stays as it is.                                                  *)
WriteFails(p) ==
    /\ proc[p].stage \in {"link", "verify"}
    /\ Fault
    /\ Return(p)
    /\ UNCHANGED <<db, keyFile, receipts, returned, withdrawn, drawn>>

VerifyStored(p) ==
    /\ proc[p].stage = "verify"
    /\ Compare(p, proc[p].job.id, proc[p].job.receipt)
    /\ UNCHANGED <<db, keyFile, receipts, withdrawn, drawn, faults>>

-----------------------------------------------------------------------------
Crash(p) ==
    /\ proc[p].stage \notin {"start", "refused"}
    /\ Fault
    /\ proc' = [proc EXCEPT ![p] = Down]
    /\ UNCHANGED <<db, keyFile, receipts, returned, withdrawn, drawn>>

Restart(p) ==
    /\ proc[p].stage = "refused"
    /\ proc' = [proc EXCEPT ![p] = Down]
    /\ UNCHANGED <<db, keyFile, receipts, returned, withdrawn, drawn, faults>>

ProcessStep(p) ==
    \/ ReadVersion(p) \/ Migrate(p) \/ FindCohortKey(p) \/ Bind(p) \/ FindIntegrityKey(p)
    \/ \E s \in Stores : CreateKey(p, s) \/ WriteKey(p, s) \/ SyncKey(p, s) \/ WriteKeyFails(p, s)
                        \/ ReadKey(p, s)
    \/ RecordRelease(p) \/ StartWrite(p) \/ Link(p) \/ CopyStarts(p) \/ Copy(p) \/ SyncCopy(p)
    \/ CopyFails(p) \/ WriteFails(p) \/ VerifyStored(p)
    \/ Crash(p) \/ Restart(p)

StorageNext == \E p \in Processes : ProcessStep(p)

StorageSpec == StorageInit /\ [][StorageNext]_storageVars

-----------------------------------------------------------------------------
(* The key in the file of a store, and those that were in it until their   *)
(* writer failed to sync them.                                             *)
KeysOf(s) == {keyFile[s]} \cup withdrawn.keys

(* Whatever raced, failed or crashed on the way, everyone who serves goes  *)
(* by one cohort key, which is the one cohorts were recorded under; every  *)
(* key in use, and every key something was sealed or recorded under, is in *)
(* its file, whole, unless the process that drew it withdrew it because it *)
(* could not sync it.  A start interrupted between the schema and the key, *)
(* or between the creation of a key file and its writing, is refused from  *)
(* then on, but no later start replaces a key that is in use               *)
(* (disclosure/ledger.py, receipts/writer.py).                             *)
KeysAreKept ==
    /\ \A p \in Processes :
        /\ \A s \in Stores : proc[p].key[s] # NoFile => proc[p].key[s] \in KeysOf(s)
        /\ proc[p].key["receipts"] # NoFile => proc[p].key["ledger"] = db.fingerprint
    /\ db.fingerprint # NoFile => db.fingerprint \in KeysOf("ledger")
    /\ db.recorded \subseteq {db.fingerprint}
    /\ \A i \in Ids : Whole(receipts[i]) => receipts[i].key \in KeysOf("receipts")

(* A receipt whose write returned stays what it is, with or without hard   *)
(* links and whatever crashed in between, unless a writer whose copy it is *)
(* failed to sync the copy, and withdrew it: no later writer replaces it   *)
(* or cuts it short (receipts/writer.py).                                  *)
ReturnedReceiptsStay ==
    \A w \in returned : receipts[w[1]] = w[2] \/ w \in withdrawn.receipts
=============================================================================
