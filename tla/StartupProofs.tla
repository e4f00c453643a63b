--------------------------- MODULE StartupProofs ---------------------------
(***************************************************************************)
(* What a nanoprobe is told of its registration, proved for any keys, any  *)
(* number of nanoprobe processes and of faults.                            *)
(***************************************************************************)
EXTENDS Startup, SequenceTheorems, TLAPS

-----------------------------------------------------------------------------
(* Keys: whatever is done to them, files are files and memory is memory.   *)

LEMMA FilesKeepType ==
    ASSUME NEW disk \in KeyFiles, NEW k \in KeyId, NEW h \in Half, NEW file \in File
    PROVE  /\ SaveAKey(disk, k, h) \in KeyFiles
           /\ PurgeFiles(disk, k) \in KeyFiles
           /\ [disk EXCEPT ![k][h] = file] \in KeyFiles
BY DEF KeyFiles, SaveAKey, PurgeFiles, File

LEMMA MemoryKeepsType ==
    ASSUME NEW keys \in KeyMemory, NEW k \in KeyId, NEW who \in Identity, NEW addr \in Addr
    PROVE  /\ PublicKeyNew(keys, k) \in KeyMemory
           /\ PrivateKeyNew(keys, k) \in KeyMemory
           /\ AssociateIdentity(keys, who, k) \in KeyMemory
           /\ PurgeKeyId(keys, k) \in KeyMemory
           /\ SetSigningKeyId(keys, k) \in KeyMemory
           /\ SetDestKeyId(keys, addr, k) \in KeyMemory
<1>1. PublicKeyNew(keys, k) \in KeyMemory /\ PrivateKeyNew(keys, k) \in KeyMemory
  BY DEF KeyMemory, PublicKeyNew, PrivateKeyNew
<1>2. AssociateIdentity(keys, who, k) \in KeyMemory
  BY DEF KeyMemory, AssociateIdentity
<1>3. PurgeKeyId(keys, k) \in KeyMemory
  BY DEF KeyMemory, PurgeKeyId
<1>4. SetSigningKeyId(keys, k) \in KeyMemory
  BY DEF KeyMemory, SetSigningKeyId
<1>5. SetDestKeyId(keys, addr, k) \in KeyMemory
  BY DEF KeyMemory, SetDestKeyId
<1> QED BY <1>1, <1>2, <1>3, <1>4, <1>5

LEMMA NoKeysType == NoKeys \in KeyMemory
BY DEF KeyMemory, NoKeys

LEMMA CachedType ==
    ASSUME NEW disk, NEW keys \in KeyMemory
    PROVE  CacheAllKeypairs(disk, keys) \in KeyMemory
<1> DEFINE Found == {k \in KeyId : k \in CacheKeypair(disk, keys, k).public}
           Whole == {k \in Found : k \in CacheKeypair(disk, keys, k).private}
<1>1. Found \in SUBSET KeyId /\ Whole \in SUBSET KeyId
  OBVIOUS
<1>2. CacheAllKeypairs(disk, keys) = [keys EXCEPT !.public = Found, !.private = Whole]
  BY DEF CacheAllKeypairs
<1> HIDE DEF Found, Whole
<1> QED BY <1>1, <1>2 DEF KeyMemory

LEMMA CmaKeysType ==
    ASSUME NEW disk PROVE CmaKeys(disk) \in KeyMemory
<1>1. CmaKey \in KeyId /\ "CMA" \in Identity /\ "cma" \in Addr
  BY StartupAssumption
<1>2. CacheAllKeypairs(disk, NoKeys) \in KeyMemory
  BY NoKeysType, CachedType
<1>3. AssociateIdentity(CacheAllKeypairs(disk, NoKeys), "CMA", CmaKey) \in KeyMemory
  BY <1>1, <1>2, MemoryKeepsType
<1> QED BY <1>1, <1>3, MemoryKeepsType DEF CmaKeys

LEMMA KnownKeysType == KnownKeys \subseteq KeyMemory
<1> DEFINE found == CacheAllKeypairs(files, NoKeys)
           known == AssociateIdentity(found, "CMA", CmaKey)
           Own   == {k \in found.public \ {CmaKey} : SetSigningKeyId(known, k).signing = k}
<1>1. CmaKey \in KeyId /\ "CMA" \in Identity /\ "cma" \in Addr
  BY StartupAssumption
<1>2. found \in KeyMemory
  BY NoKeysType, CachedType
<1>3. known \in KeyMemory
  BY <1>1, <1>2, MemoryKeepsType
<1>4. Own \subseteq KeyId
  BY <1>2 DEF KeyMemory
<1>5. \A k \in Own : SetSigningKeyId(known, k) \in KeyMemory
  <2> HIDE DEF Own, known
  <2> QED BY <1>1, <1>3, <1>4, MemoryKeepsType
<1>6. KnownKeys = IF Own = {} THEN {known} ELSE {SetSigningKeyId(known, k) : k \in Own}
  BY DEF KnownKeys
<1> HIDE DEF Own, known
<1> QED BY <1>3, <1>5, <1>6

-----------------------------------------------------------------------------
(* Type correctness.                                                       *)

NanoType == [id : Process, phase : Phase, enabled : BOOLEAN,
             configured : BOOLEAN, complete : BOOLEAN, stopping : BOOLEAN]

CmaType == [up : BOOLEAN, conn : {"NONE", "INIT", "UP", "SHUT"},
            txn : Txn \cup {NoTxn}, joined : Process, ghost : BOOLEAN]

\* A process that runs has a number, and so a key it would generate.
Numbered == nano.phase # "down" => nano.id > 0

TInv == TypeOK /\ Numbered

LEMMA AssumedTypes ==
    /\ CmaKey \in KeyId /\ NoKey \notin KeyId
    /\ "CMA" \in Identity /\ "drone" \in Identity
    /\ "cmainit" \in Addr /\ "cma" \in Addr /\ "drone" \in Addr
    /\ Len(NanoKeys) \in Nat /\ MaxFault \in Nat
    /\ \A n \in 1 .. Len(NanoKeys) : NanoKeys[n] \in KeyId
BY StartupAssumption, KeysAssumption

LEMMA NewKeyType ==
    ASSUME TInv, nano.phase # "down" PROVE NewKey \in KeyId
<1>1. nano.id \in 1 .. Len(NanoKeys)
  BY AssumedTypes DEF TInv, TypeOK, Numbered, Process
<1> QED BY <1>1, AssumedTypes DEF NewKey

LEMMA InitType == Init => TInv
<1> SUFFICES ASSUME Init PROVE TInv
  OBVIOUS
<1>1. NoFiles \in KeyFiles /\ CmaFiles \in KeyFiles
  BY AssumedTypes DEF NoFiles, CmaFiles, KeyFiles, File, Half
<1>2. mem \in KeyMemory /\ cmem \in KeyMemory
  BY NoKeysType, CmaKeysType DEF Init
<1>3. nano \in NanoType /\ Numbered
  BY AssumedTypes DEF Init, Down, NanoType, Process, Phase, Numbered
<1>4. net = {} /\ out \in Seq([type : {"SETCONFIG", "ACKSTARTUP"}, for : Process, key : KeyId])
  BY DEF Init
<1>5. /\ cma \in CmaType /\ misled \in BOOLEAN /\ failed \in Process
      /\ db \in [key : KeyId \cup {NoKey}, joined : Process]
      /\ faults \in 0 .. MaxFault
  <2>1. 0 \in Process /\ 0 \in 0 .. MaxFault
    BY AssumedTypes DEF Process
  <2>2. /\ cma = [up |-> TRUE, conn |-> "NONE", txn |-> NoTxn, joined |-> 0, ghost |-> FALSE]
        /\ db = [key |-> NoKey, joined |-> 0] /\ misled = FALSE /\ failed = 0 /\ faults = 0
    BY DEF Init
  <2> QED BY <2>1, <2>2 DEF CmaType
<1> QED BY <1>1, <1>2, <1>3, <1>4, <1>5 DEF Init, TInv, TypeOK, NanoType, CmaType

LEMMA FaultType ==
    ASSUME TInv, Fault \/ UNCHANGED faults PROVE faults' \in 0 .. MaxFault
BY AssumedTypes DEF TInv, TypeOK, Fault

\* The keys.
LEMMA KeysStepType ==
    ASSUME TInv, InstallCmaKey \/ Start \/ SavePublic \/ SavePrivate \/ SaveFails
    PROVE  TInv'
<1>1. CASE InstallCmaKey
  <2>1. files' \in KeyFiles
    BY <1>1, AssumedTypes, FilesKeepType DEF InstallCmaKey, TInv, TypeOK, Half, File
  <2> QED BY <1>1, <2>1 DEF InstallCmaKey, TInv, TypeOK, Numbered, cmavars
<1>2. CASE Start
  <2>1. PICK keys \in KnownKeys : InitializeKeys(keys)
    BY <1>2 DEF Start, StartFull
  <2>2. mem' \in KeyMemory
    BY <2>1, KnownKeysType DEF InitializeKeys
  <2>3. nano.id \in Nat /\ nano.id + 1 \in Process /\ nano.id + 1 > 0
    BY <1>2, AssumedTypes DEF Start, TInv, TypeOK, Process
  <2>4. nano' \in NanoType /\ nano'.id > 0
    BY <2>1, <2>3 DEF InitializeKeys, Down, NanoType, Phase
  <2> QED BY <1>2, <2>2, <2>4 DEF Start, TInv, TypeOK, NanoType, Numbered, cmavars
<1>3. CASE SavePublic
  <2>1. files' \in KeyFiles
    BY <1>3, NewKeyType, FilesKeepType DEF SavePublic, TInv, TypeOK, Half, File
  <2>2. nano' \in NanoType /\ Numbered'
    BY <1>3 DEF SavePublic, TInv, TypeOK, NanoType, Phase, Numbered
  <2> QED BY <1>3, <2>1, <2>2 DEF SavePublic, TInv, TypeOK, NanoType, cmavars
<1>4. CASE SavePrivate
  <2>1. NewKey \in KeyId
    BY <1>4, NewKeyType DEF SavePrivate
  <2>2. files' \in KeyFiles
    BY <1>4, <2>1, FilesKeepType DEF SavePrivate, TInv, TypeOK, Half, File
  <2>3. PublicKeyNew(PrivateKeyNew(mem, NewKey), NewKey) \in KeyMemory
    BY <2>1, AssumedTypes, MemoryKeepsType DEF TInv, TypeOK
  <2>4. mem' \in KeyMemory
    BY <1>4, <2>1, <2>3, AssumedTypes, MemoryKeepsType DEF SavePrivate
  <2>5. nano' \in NanoType /\ Numbered'
    BY <1>4 DEF SavePrivate, TInv, TypeOK, NanoType, Phase, Numbered
  <2> QED BY <1>4, <2>2, <2>4, <2>5 DEF SavePrivate, TInv, TypeOK, NanoType, cmavars
<1>5. CASE SaveFails
  <2>1. NewKey \in KeyId
    BY <1>5, NewKeyType DEF SaveFails
  <2>2. files' \in KeyFiles
    BY <1>5, <2>1, FilesKeepType DEF SaveFails, TInv, TypeOK, Half, File
  <2>3. mem' \in KeyMemory
    BY <1>5, <2>1, AssumedTypes, MemoryKeepsType DEF SaveFails, TInv, TypeOK
  <2>4. nano' \in NanoType /\ Numbered'
    BY <1>5 DEF SaveFails, TInv, TypeOK, NanoType, Phase, Numbered
  <2>5. faults' \in 0 .. MaxFault
    BY <1>5, FaultType DEF SaveFails
  <2> QED BY <1>5, <2>2, <2>3, <2>4, <2>5 DEF SaveFails, TInv, TypeOK, NanoType, cmavars
<1> QED BY <1>1, <1>2, <1>3, <1>4, <1>5

\* Asking.
LEMMA AskingStepType ==
    ASSUME TInv, StartDiscovery \/ StartAsking \/ AskAgain
    PROVE  TInv'
<1>1. StartupFrameSet \in [for : Process, key : KeyId \cup {NoKey}, sealed : BOOLEAN]
  BY DEF TInv, TypeOK, StartupFrameSet, KeyMemory, SealedFor
<1>2. CASE StartDiscovery
  <2>1. nano' \in NanoType /\ Numbered'
    BY <1>2 DEF StartDiscovery, TInv, TypeOK, NanoType, Phase, Numbered
  <2> QED BY <1>2, <2>1 DEF StartDiscovery, TInv, TypeOK, NanoType, cmavars
<1>3. CASE StartAsking \/ AskAgain
  <2>1. /\ nano.phase # "down"
        /\ \E p \in {"asking", nano.phase} : ReqConfig(p)
        /\ UNCHANGED <<mem, files, misled, cmavars, out, faults>>
    BY <1>3 DEF StartAsking, AskAgain, ReqConfig
  <2>2. nano' \in NanoType /\ Numbered'
    BY <2>1 DEF ReqConfig, TInv, TypeOK, NanoType, Phase, Numbered
  <2>3. net' \subseteq [for : Process, key : KeyId \cup {NoKey}, sealed : BOOLEAN]
    BY <1>1, <2>1 DEF ReqConfig, TInv, TypeOK
  <2> QED BY <2>1, <2>2, <2>3 DEF TInv, TypeOK, NanoType, cmavars
<1> QED BY <1>2, <1>3

Reply == [type : {"SETCONFIG", "ACKSTARTUP"}, for : Process, key : KeyId]

\* What the CMA has sent arrives.
LEMMA GotFrameSetType ==
    ASSUME TInv, GotFrameset
    PROVE  TInv'
<1>1. out \in Seq(Reply) /\ out # <<>>
  BY DEF TInv, TypeOK, Reply, GotFrameset
<1>2. out' \in Seq(Reply)
  BY <1>1, HeadTailProperties DEF GotFrameset
<1>3. ReplyKey \in KeyMemory
  BY AssumedTypes, MemoryKeepsType DEF ReplyKey, TInv, TypeOK
<1>4. SetDestKeyId(ReplyKey, "cma", CmaKey) \in KeyMemory
  BY <1>3, AssumedTypes, MemoryKeepsType
<1>5. AssociateCmaAddrs(ReplyKey) \in KeyMemory
  BY <1>4, AssumedTypes, MemoryKeepsType DEF AssociateCmaAddrs
<1>6. UNCHANGED <<nano, mem, misled>> \/ SetConfig \/ AckStartup
  <2>1. Head(out) \in Reply
    BY <1>1, HeadTailProperties
  <2>2. Head(out).type \in {"SETCONFIG", "ACKSTARTUP"}
    BY <2>1 DEF Reply
  <2> QED BY <2>2 DEF GotFrameset
<1>7. mem' \in KeyMemory
  BY <1>3, <1>5, <1>6 DEF SetConfig, AckStartup, TInv, TypeOK
<1>8. nano' \in NanoType /\ Numbered' /\ misled' \in BOOLEAN
  BY <1>6 DEF SetConfig, AckStartup, TInv, TypeOK, NanoType, Numbered
<1>9. cma' \in CmaType
  BY DEF GotFrameset, TInv, TypeOK, CmaType
<1> QED BY <1>2, <1>7, <1>8, <1>9 DEF GotFrameset, TInv, TypeOK, NanoType, Reply, CmaType

\* A nanoprobe ends.
LEMMA EndStepType ==
    ASSUME TInv, CheckForSignals \/ ShutdownWhenOutdone \/ NanoCrash
    PROVE  TInv'
<1>1. ASSUME Ended
      PROVE  nano' \in NanoType /\ Numbered' /\ mem' \in KeyMemory /\ net' = {}
  BY <1>1, NoKeysType DEF Ended, Down, TInv, TypeOK, NanoType, Phase, Numbered
<1>2. CASE CheckForSignals
  <2>1. CASE nano.configured
    <3>1. nano' \in NanoType /\ Numbered'
      BY <1>2, <2>1 DEF CheckForSignals, InitiateShutdown, TInv, TypeOK, NanoType, Numbered
    <3> QED BY <1>2, <2>1, <3>1
         DEF CheckForSignals, InitiateShutdown, TInv, TypeOK, NanoType, cmavars
  <2>2. CASE ~nano.configured
    BY <1>1, <1>2, <2>2 DEF CheckForSignals, InitiateShutdown, TInv, TypeOK, NanoType, cmavars
  <2> QED BY <2>1, <2>2
<1>3. CASE ShutdownWhenOutdone
  BY <1>1, <1>3 DEF ShutdownWhenOutdone, TInv, TypeOK, NanoType, cmavars
<1>4. CASE NanoCrash
  <2>1. files' \in KeyFiles
    BY <1>4, NewKeyType, FilesKeepType DEF NanoCrash, TInv, TypeOK
  <2>2. faults' \in 0 .. MaxFault
    BY <1>4, FaultType DEF NanoCrash
  <2> QED BY <1>1, <1>4, <2>1, <2>2 DEF NanoCrash, TInv, TypeOK, NanoType, cmavars
<1> QED BY <1>2, <1>3, <1>4

\* A transaction that has begun is for some process and some key.
LEMMA TxnType ==
    ASSUME TInv, cma.txn.step \in {"save", "send", "commit", "ack"}
    PROVE  /\ cma.txn \in Txn
           /\ cma.txn.key \in KeyId /\ cma.txn.for \in Process
BY DEF TInv, TypeOK, Txn, NoTxn

LEMMA SentType ==
    ASSUME TInv, cma.txn.step \in {"save", "send", "commit", "ack"},
           NEW type \in {"SETCONFIG", "ACKSTARTUP"}
    PROVE  Sent(type) \in Seq(Reply)
<1> DEFINE m == [type |-> type, for |-> cma.txn.for, key |-> cma.txn.key]
<1>1. m \in Reply
  BY TxnType DEF Reply
<1>2. out \in Seq(Reply)
  BY DEF TInv, TypeOK, Reply
<1>3. Append(out, m) \in Seq(Reply)
  BY <1>1, <1>2, AppendProperties
<1> QED BY <1>2, <1>3 DEF Sent

\* The CMA registers a nanoprobe.
LEMMA DispatchStepType ==
    ASSUME TInv, NEW m \in net, NEW again \in BOOLEAN, DispatchStartup(m, again)
    PROVE  TInv'
<1>1. m \in [for : Process, key : KeyId \cup {NoKey}, sealed : BOOLEAN]
  BY DEF TInv, TypeOK
<1>2. DroneKey(m) \in KeyId \cup {NoKey}
  BY <1>1 DEF DroneKey, TInv, TypeOK
<1>3. ASSUME Acceptable(m), NEW step \in {"save", "send"}
      PROVE  Answered(m, step) \in Txn
  BY <1>1, <1>2, <1>3 DEF Acceptable, Answered, ConnActive, Txn
<1>4. cma' \in CmaType
  BY <1>3 DEF DispatchStartup, CmaType, TInv, TypeOK
<1>5. net' \subseteq net
  BY DEF DispatchStartup
<1> QED BY <1>4, <1>5 DEF DispatchStartup, CmaType, TInv, TypeOK, Numbered, nanovars

LEMMA TransactionStepType ==
    ASSUME TInv,
           \/ SaveNanoKey \/ SaveNanoKeyFails \/ SendConfig \/ JoinFails
           \/ CommitDb \/ CommitFails \/ SendAck
    PROVE  TInv'
<1>1. cma.txn \in Txn /\ cma.txn.key \in KeyId /\ cma.txn.for \in Process
  BY TxnType DEF SaveNanoKey, SaveNanoKeyFails, SendConfig, JoinFails, CommitDb, CommitFails, SendAck
<1>2. Opened \in {"NONE", "INIT", "UP", "SHUT"} /\ cma \in CmaType /\ db.joined \in Process
  BY DEF Opened, TInv, TypeOK, CmaType
<1>3. cma' \in CmaType
  <2>1. \A step \in {"save", "send", "commit", "ack"} : [cma.txn EXCEPT !.step = step] \in Txn
    BY <1>1 DEF Txn
  <2>2. \A step \in {"save", "send", "commit", "ack"} : [cma EXCEPT !.txn.step = step]
            = [cma EXCEPT !.txn = [cma.txn EXCEPT !.step = step]]
    BY <1>2 DEF CmaType
  <2>3. [cma EXCEPT !.txn.step = "commit", !.conn = Opened, !.joined = cma.txn.for]
          = [cma EXCEPT !.txn = [cma.txn EXCEPT !.step = "commit"],
                        !.conn = Opened, !.joined = cma.txn.for]
    BY <1>2 DEF CmaType
  <2>4. CASE SaveNanoKey
    BY <1>2, <2>1, <2>2, <2>4 DEF SaveNanoKey, CmaType
  <2>5. CASE SendConfig
    BY <1>1, <1>2, <2>1, <2>3, <2>5 DEF SendConfig, CmaType
  <2>6. CASE CommitDb
    BY <1>2, <2>1, <2>6 DEF CommitDb, CmaType
  <2>7. CASE SaveNanoKeyFails \/ JoinFails \/ CommitFails \/ SendAck
    BY <1>2, <2>7 DEF SaveNanoKeyFails, JoinFails, CommitFails, SendAck, CmaType
  <2> QED BY <2>4, <2>5, <2>6, <2>7
<1>4. CASE SaveNanoKey
  <2>1. cfiles' \in KeyFiles
    BY <1>1, <1>4, FilesKeepType DEF SaveNanoKey, TInv, TypeOK, Half, File
  <2>2. cmem' \in KeyMemory
    BY <1>1, <1>4, AssumedTypes, MemoryKeepsType DEF SaveNanoKey, TInv, TypeOK
  <2> QED BY <1>3, <1>4, <2>1, <2>2 DEF SaveNanoKey, CmaType, TInv, TypeOK, Numbered, nanovars
<1>5. CASE SaveNanoKeyFails
  <2>1. cfiles' \in KeyFiles
    BY <1>1, <1>5, FilesKeepType DEF SaveNanoKeyFails, TInv, TypeOK, Half, File
  <2>2. cmem' \in KeyMemory
    BY <1>1, <1>5, AssumedTypes, MemoryKeepsType DEF SaveNanoKeyFails, TInv, TypeOK
  <2>3. faults' \in 0 .. MaxFault
    BY <1>5, FaultType DEF SaveNanoKeyFails
  <2> QED BY <1>3, <1>5, <2>1, <2>2, <2>3
       DEF SaveNanoKeyFails, CmaType, TInv, TypeOK, Numbered, nanovars
<1>6. CASE SendConfig \/ JoinFails
  <2>1. AssociateIdentity(cmem, "drone", cma.txn.key) \in KeyMemory
    BY <1>1, AssumedTypes, MemoryKeepsType DEF TInv, TypeOK
  <2>2. cmem' \in KeyMemory
    BY <1>1, <1>6, <2>1, AssumedTypes, MemoryKeepsType DEF SendConfig, JoinFails, DroneKeys
  <2>3. out' \in Seq(Reply)
    BY <1>6, SentType DEF SendConfig, JoinFails, TInv, TypeOK, Reply
  <2> QED BY <1>3, <1>6, <2>2, <2>3
       DEF SendConfig, JoinFails, CmaType, TInv, TypeOK, Numbered, nanovars, Reply
<1>7. CASE CommitDb
  <2>1. db' \in [key : KeyId \cup {NoKey}, joined : Process]
    BY <1>1, <1>7 DEF CommitDb, TInv, TypeOK
  <2> QED BY <1>3, <1>7, <2>1 DEF CommitDb, CmaType, TInv, TypeOK, Numbered, nanovars
<1>8. CASE CommitFails
  <2>1. faults' \in 0 .. MaxFault /\ failed' \in Process
    BY <1>1, <1>8, FaultType DEF CommitFails, TInv, TypeOK
  <2> QED BY <1>3, <1>8, <2>1 DEF CommitFails, CmaType, TInv, TypeOK, Numbered, nanovars
<1>9. CASE SendAck
  <2>1. out' \in Seq(Reply)
    BY <1>9, SentType DEF SendAck
  <2> QED BY <1>3, <1>9, <2>1 DEF SendAck, CmaType, TInv, TypeOK, Numbered, nanovars, Reply
<1> QED BY <1>4, <1>5, <1>6, <1>7, <1>8, <1>9

\* The CMA forgets what it could not commit.
LEMMA ForgetStepType == ASSUME TInv, Forget PROVE TInv'
<1>1. cma' \in CmaType
  BY DEF Forget, CmaType, TInv, TypeOK
<1> QED BY <1>1 DEF Forget, CmaType, TInv, TypeOK, Numbered, nanovars

\* The connection.
LEMMA ConnStepType ==
    ASSUME TInv, ConnClosed \/ AckTimeout \/ DeathReport \/ ConnShut \/ NanoTraffic
    PROVE  TInv'
<1>1. cma' \in CmaType
  BY DEF ConnClosed, AckTimeout, DeathReport, ConnShut, NanoTraffic, Drop, CloseConn,
         CmaType, TInv, TypeOK
<1>2. out' \in Seq(Reply)
  <2>1. out' = out \/ out' = <<>>
    BY DEF ConnClosed, AckTimeout, DeathReport, ConnShut, NanoTraffic, Drop, CloseConn
  <2>2. out \in Seq(Reply)
    BY DEF TInv, TypeOK, Reply
  <2> QED BY <2>1, <2>2, EmptySeq
<1>3. faults' \in 0 .. MaxFault
  BY FaultType DEF ConnClosed, AckTimeout, DeathReport, ConnShut, NanoTraffic
<1>4. UNCHANGED <<nano, mem, files, misled, net, cmem, cfiles, db, failed>>
  BY DEF ConnClosed, AckTimeout, DeathReport, ConnShut, NanoTraffic, Drop, CloseConn, nanovars
<1> QED BY <1>1, <1>2, <1>3, <1>4 DEF CmaType, TInv, TypeOK, Numbered, Reply

\* The CMA ends and starts.
LEMMA CmaStepType ==
    ASSUME TInv, CmaCrash \/ CmaStart
    PROVE  TInv'
<1>1. cma' \in CmaType
  <2>1. CASE CmaCrash
    BY <2>1 DEF CmaCrash, CmaType, TInv, TypeOK
  <2>2. CASE CmaStart
    BY <2>2 DEF CmaStart, CmaType, TInv, TypeOK
  <2> QED BY <2>1, <2>2
<1>2. cmem' \in KeyMemory
  BY NoKeysType, CmaKeysType DEF CmaCrash, CmaStart
<1>3. cfiles' \in KeyFiles
  <2>1. CASE CmaCrash /\ cma.txn.step = "save"
    <3>1. cma.txn.key \in KeyId
      BY <2>1, TxnType
    <3>2. PICK file \in File : cfiles' = [cfiles EXCEPT ![cma.txn.key]["public"] = file]
      BY <2>1 DEF CmaCrash
    <3>3. cfiles \in KeyFiles /\ "public" \in Half
      BY DEF TInv, TypeOK, Half
    <3> QED BY <3>1, <3>2, <3>3, FilesKeepType
  <2>2. CASE ~(CmaCrash /\ cma.txn.step = "save")
    BY <2>2 DEF CmaCrash, CmaStart, TInv, TypeOK
  <2> QED BY <2>1, <2>2
<1>4. out' \in Seq(Reply)
  <2>1. out' = out \/ out' = <<>>
    BY DEF CmaCrash, CmaStart
  <2>2. out \in Seq(Reply)
    BY DEF TInv, TypeOK, Reply
  <2> QED BY <2>1, <2>2, EmptySeq
<1>5. faults' \in 0 .. MaxFault
  BY FaultType DEF CmaCrash, CmaStart
<1>6. UNCHANGED <<nano, mem, files, misled, net, db, failed>>
  BY DEF CmaCrash, CmaStart, nanovars
<1> QED BY <1>1, <1>2, <1>3, <1>4, <1>5, <1>6 DEF CmaType, TInv, TypeOK, Numbered, Reply

LEMMA StepType ==
    ASSUME TInv, [Next]_vars
    PROVE  TInv'
<1>1. CASE \E m \in net : Lose(m)
  BY <1>1 DEF Lose, TInv, TypeOK, Numbered, nanovars, cmavars
<1>2. CASE UNCHANGED vars
  BY <1>2 DEF vars, TInv, TypeOK, Numbered
<1>3. CASE \E m \in net : \E again \in BOOLEAN : DispatchStartup(m, again)
  BY <1>3, DispatchStepType
<1> QED BY <1>1, <1>2, <1>3, KeysStepType, AskingStepType, GotFrameSetType, EndStepType,
           TransactionStepType, ForgetStepType, ConnStepType, CmaStepType DEF Next

\* Every variable keeps its type, whatever crashes and whatever fails.
THEOREM StartupTypeCorrect == Spec => []TypeOK
<1>1. TInv /\ [Next]_vars => TInv'
  BY StepType
<1>2. TInv => TypeOK
  BY DEF TInv
<1> QED BY InitType, <1>1, <1>2, PTL DEF Spec

-----------------------------------------------------------------------------
(* Processes are dealt with in the order in which they started: what the   *)
(* CMA does may be for a process that has ended, but the database never    *)
(* goes back to one.                                                       *)

\* What has been committed, has failed, is in memory and is being done, in this order
InOrder ==
    /\ db.joined <= cma.joined /\ cma.joined <= nano.id /\ failed <= nano.id
    /\ cma.txn # NoTxn =>
          cma.joined <= cma.txn.for /\ failed <= cma.txn.for /\ cma.txn.for <= nano.id
    /\ cma.txn.step = "commit" \/ cma.txn.dup => cma.joined = cma.txn.for
    /\ nano.phase = "down" => net = {}
    /\ \A m \in net : m.for = nano.id
    /\ \A i \in 1 .. Len(out) : out[i].for <= nano.id

\* The present process is in the database, or has once failed to get there.
Recorded == db.joined = nano.id \/ failed = nano.id

\* An ACKSTARTUP for the present process that is on its way, or about to be sent, is
\* for a process that is recorded; so is a lastjoin in memory, but while it is being
\* written; and so is a nanoprobe that was told and is not misled.
Deserved ==
    /\ cma.joined = nano.id => Recorded \/ (cma.txn.step = "commit" /\ ~cma.txn.dup)
    /\ cma.txn.step = "ack" /\ cma.txn.for = nano.id => Recorded
    /\ \A i \in 1 .. Len(out) :
           out[i].type = "ACKSTARTUP" /\ out[i].for = nano.id => Recorded
    /\ nano.complete => Recorded \/ misled

IInv == TInv /\ InOrder /\ Deserved

LEMMA Numbers ==
    ASSUME TInv
    PROVE  /\ nano.id \in Nat /\ cma.joined \in Nat /\ db.joined \in Nat /\ failed \in Nat
           /\ cma \in CmaType /\ nano \in NanoType /\ out \in Seq(Reply) /\ Len(out) \in Nat
           /\ cma.txn.for \in Nat
           /\ \A i \in 1 .. Len(out) : out[i] \in Reply /\ out[i].for \in Nat
<1>1. Process \subseteq Nat
  BY AssumedTypes DEF Process
<1>2. cma \in CmaType /\ nano \in NanoType /\ out \in Seq(Reply)
  BY DEF TInv, TypeOK, CmaType, NanoType, Reply
<1>3. /\ nano.id \in Process /\ cma.joined \in Process /\ cma.txn.for \in Process
      /\ db.joined \in Process /\ failed \in Process
  BY <1>1, <1>2, AssumedTypes DEF TInv, TypeOK, CmaType, NanoType, Txn, NoTxn, Process
<1>4. Len(out) \in Nat /\ \A i \in 1 .. Len(out) : out[i] \in Reply
  BY <1>2, LenProperties, ElementOfSeq
<1> QED BY <1>1, <1>2, <1>3, <1>4 DEF Reply

\* The steps that leave alone what IInv speaks about, or only take from it.
LEMMA Less ==
    ASSUME IInv, nano'.id = nano.id, nano'.complete => nano.complete,
           misled' = misled, failed' = failed, db' = db,
           net' \subseteq net, nano'.phase = "down" => net' = {},
           \/ cma'.txn = cma.txn /\ cma'.joined = cma.joined
           \/ cma'.txn = NoTxn /\ cma.txn.step # "commit" /\ cma'.joined = cma.joined
           \/ cma'.txn = NoTxn /\ cma'.joined = db.joined,
           out' = out \/ out' = <<>>
    PROVE  InOrder' /\ Deserved'
<1>1. Recorded' = Recorded
  BY DEF Recorded
<1>2. InOrder'
  BY Numbers DEF IInv, InOrder, NoTxn
<1>3. Deserved'
  BY <1>1, Numbers DEF IInv, InOrder, Deserved, Recorded, NoTxn
<1> QED BY <1>2, <1>3

LEMMA KeysStep ==
    ASSUME IInv, InstallCmaKey \/ SavePublic \/ SavePrivate \/ SaveFails \/ StartDiscovery
    PROVE  InOrder' /\ Deserved'
<1>1. /\ nano'.id = nano.id /\ nano'.complete = nano.complete
      /\ nano'.phase = "down" => nano.phase = "down"
      /\ net' = net /\ cma' = cma /\ db' = db /\ out' = out /\ misled' = misled /\ failed' = failed
  BY DEF InstallCmaKey, SavePublic, SavePrivate, SaveFails, StartDiscovery, cmavars,
         IInv, TInv, TypeOK
<1> QED BY <1>1, Less DEF IInv, InOrder

\* Nothing that is under way is for the process that starts.
LEMMA StartStep ==
    ASSUME IInv, Start
    PROVE  InOrder' /\ Deserved'
<1>1. PICK keys \in KnownKeys : InitializeKeys(keys)
  BY DEF Start, StartFull
<1>2. nano'.id = nano.id + 1 /\ ~nano'.complete /\ nano'.phase # "down"
  BY <1>1 DEF InitializeKeys, Down
<1>3. net = {} /\ UNCHANGED <<net, out, cma, db, failed>>
  BY DEF Start, IInv, InOrder, cmavars
<1>4. InOrder'
  BY <1>2, <1>3, Numbers DEF IInv, InOrder
<1>5. /\ cma.joined # nano'.id /\ \A i \in 1 .. Len(out) : out[i].for # nano'.id
      /\ cma.txn.step = "ack" => cma.txn.for # nano'.id
  BY <1>2, Numbers DEF IInv, InOrder, NoTxn
<1> QED BY <1>2, <1>3, <1>4, <1>5 DEF Deserved

LEMMA AskingStep ==
    ASSUME IInv, StartAsking \/ AskAgain
    PROVE  InOrder' /\ Deserved'
<1>1. /\ nano'.id = nano.id /\ nano'.complete = nano.complete /\ nano'.phase # "down"
      /\ \A m \in net' : m \in net \/ m = StartupFrameSet
      /\ UNCHANGED <<cma, db, out, misled, failed>>
  BY DEF StartAsking, AskAgain, ReqConfig, cmavars, IInv, TInv, TypeOK
<1>2. StartupFrameSet.for = nano.id
  BY DEF StartupFrameSet
<1>3. InOrder'
  BY <1>1, <1>2 DEF IInv, InOrder
<1>4. Deserved'
  BY <1>1 DEF IInv, Deserved, Recorded
<1> QED BY <1>3, <1>4

\* What is believed is deserved, or misleads.
LEMMA GotFrameSetStep ==
    ASSUME IInv, GotFrameset
    PROVE  InOrder' /\ Deserved'
<1>1. out \in Seq(Reply) /\ out # <<>>
  BY Numbers DEF IInv, GotFrameset
<1>2. Head(out) = out[1] /\ 1 \in 1 .. Len(out)
  BY <1>1, HeadTailProperties
<1>3. /\ Len(out') = Len(out) - 1
      /\ \A i \in 1 .. Len(out') : i + 1 \in 1 .. Len(out) /\ out'[i] = out[i + 1]
  BY <1>1, HeadTailProperties DEF GotFrameset
<1>4. \/ UNCHANGED <<nano, misled>> \/ SetConfig
      \/ AckStartup /\ Head(out).type = "ACKSTARTUP"
  <2>1. Head(out) \in Reply
    BY <1>1, HeadTailProperties
  <2>2. Head(out).type \in {"SETCONFIG", "ACKSTARTUP"}
    BY <2>1 DEF Reply
  <2> QED BY <2>2 DEF GotFrameset
<1>5. /\ nano'.id = nano.id /\ nano'.phase = nano.phase
      /\ \/ nano'.complete = nano.complete /\ misled' = misled
         \/ /\ Head(out).type = "ACKSTARTUP"
            /\ misled' = (misled \/ Head(out).for # nano.id)
  BY <1>4, Numbers DEF SetConfig, AckStartup, IInv, NanoType
<1>6. UNCHANGED <<net, db, failed>> /\ cma'.txn = cma.txn /\ cma'.joined = cma.joined
  BY Numbers DEF GotFrameset, IInv, CmaType
<1>7. InOrder'
  BY <1>3, <1>5, <1>6 DEF IInv, InOrder
<1>8. Recorded' = Recorded
  BY <1>5, <1>6 DEF Recorded
<1>9. nano'.complete => Recorded \/ misled'
  BY <1>2, <1>5 DEF IInv, Deserved
<1>10. \A i \in 1 .. Len(out') :
           out'[i].type = "ACKSTARTUP" /\ out'[i].for = nano.id => Recorded
  BY <1>3 DEF IInv, Deserved
<1> QED BY <1>5, <1>6, <1>7, <1>8, <1>9, <1>10 DEF IInv, Deserved

LEMMA EndStep ==
    ASSUME IInv, CheckForSignals \/ ShutdownWhenOutdone \/ NanoCrash
    PROVE  InOrder' /\ Deserved'
<1>1. UNCHANGED <<cma, db, out, misled, failed>>
  BY DEF CheckForSignals, ShutdownWhenOutdone, NanoCrash, cmavars
<1>2. CASE Ended
  BY <1>1, <1>2, Less DEF Ended, Down
<1>3. CASE nano' = [nano EXCEPT !.stopping = TRUE] /\ UNCHANGED net
  BY <1>1, <1>3, Less, Numbers DEF IInv, InOrder, NanoType
<1> QED BY <1>2, <1>3 DEF CheckForSignals, InitiateShutdown, ShutdownWhenOutdone, NanoCrash

LEMMA DispatchStep ==
    ASSUME IInv, NEW m \in net, NEW again \in BOOLEAN, DispatchStartup(m, again)
    PROVE  InOrder' /\ Deserved'
<1>1. /\ UNCHANGED <<nano, out, db, misled, failed>> /\ net' \subseteq net
      /\ cma'.joined = cma.joined
  BY Numbers DEF DispatchStartup, nanovars, IInv, CmaType
<1>2. cma'.txn = cma.txn \/ \E step \in {"save", "send"} : cma'.txn = Answered(m, step)
  BY Numbers DEF DispatchStartup, IInv, CmaType
<1>3. CASE cma'.txn = cma.txn
  BY <1>1, <1>3, Less DEF IInv, InOrder
<1>4. CASE \E step \in {"save", "send"} : cma'.txn = Answered(m, step)
  <2>1. /\ cma'.txn.for = nano.id /\ cma'.txn.step \in {"save", "send"}
        /\ cma'.txn.dup => cma.joined = nano.id
    <3>1. PICK step \in {"save", "send"} : cma'.txn = Answered(m, step)
      BY <1>4
    <3>2. /\ cma'.txn.for = m.for /\ cma'.txn.step = step
          /\ cma'.txn.dup = (cma.joined = m.for)
      BY <3>1 DEF Answered
    <3>3. m.for = nano.id
      BY DEF IInv, InOrder
    <3> QED BY <3>2, <3>3
  <2>2. InOrder'
    BY <1>1, <2>1, Numbers DEF IInv, InOrder
  <2>3. cma.txn = NoTxn
    BY DEF DispatchStartup, Ready
  <2> QED BY <1>1, <2>1, <2>2, <2>3 DEF IInv, Deserved, Recorded, NoTxn
<1> QED BY <1>2, <1>3, <1>4

\* A FrameSet of the transaction is put into the queue, or the connection takes none.
LEMMA SentStep ==
    ASSUME IInv, cma.txn # NoTxn, NEW type \in {"SETCONFIG", "ACKSTARTUP"}, out' = Sent(type),
           nano' = nano, type = "ACKSTARTUP" /\ cma.txn.for = nano.id => Recorded
    PROVE  \A i \in 1 .. Len(out') :
               /\ out'[i].for <= nano.id
               /\ out'[i].type = "ACKSTARTUP" /\ out'[i].for = nano.id => Recorded
<1> DEFINE m == [type |-> type, for |-> cma.txn.for, key |-> cma.txn.key]
<1>1. cma.txn \in Txn
  BY DEF IInv, TInv, TypeOK
<1>2. m \in Reply /\ m.type = type /\ m.for = cma.txn.for
  BY <1>1 DEF Reply, Txn
<1>3. out' = out \/ out' = Append(out, m)
  BY DEF Sent
<1> HIDE DEF m
<1>4. /\ Len(Append(out, m)) = Len(out) + 1
      /\ \A i \in 1 .. Len(out) : Append(out, m)[i] = out[i]
      /\ Append(out, m)[Len(out) + 1] = m
      /\ Len(out) \in Nat
  BY <1>2, Numbers, AppendProperties, LenProperties DEF IInv
<1>5. cma.txn.for <= nano.id
  BY DEF IInv, InOrder
<1>6. CASE out' = out
  BY <1>6 DEF IInv, InOrder, Deserved
<1>7. CASE out' = Append(out, m)
  <2>1. \A i \in 1 .. Len(out') : i \in 1 .. Len(out) \/ i = Len(out) + 1
    BY <1>4, <1>7
  <2> QED BY <1>2, <1>4, <1>5, <1>7, <2>1 DEF IInv, InOrder, Deserved
<1> QED BY <1>3, <1>6, <1>7

\* The transaction: only the database half makes its ACKSTARTUP deserved.
LEMMA TransactionStep ==
    ASSUME IInv, SaveNanoKey \/ SendConfig \/ CommitDb \/ CommitFails \/ SendAck
    PROVE  InOrder' /\ Deserved'
<1>1. /\ cma.txn \in Txn /\ cma.txn # NoTxn
      /\ cma \in CmaType /\ out \in Seq(Reply)
  <2>1. cma.txn.step \in {"save", "send", "commit", "ack"}
    BY DEF SaveNanoKey, SendConfig, CommitDb, CommitFails, SendAck
  <2>2. cma.txn # NoTxn
    BY <2>1 DEF NoTxn
  <2> QED BY <2>1, <2>2, TxnType, Numbers DEF IInv
<1>2. UNCHANGED <<nano, net, misled>>
  BY DEF SaveNanoKey, SendConfig, CommitDb, CommitFails, SendAck, nanovars
<1>3. CASE SaveNanoKey
  <2>1. /\ UNCHANGED <<out, db, failed>> /\ cma'.joined = cma.joined /\ cma'.txn.step = "send"
        /\ cma'.txn.for = cma.txn.for /\ cma'.txn.dup = cma.txn.dup /\ cma.txn.step = "save"
    BY <1>1, <1>3 DEF SaveNanoKey, CmaType, Txn
  <2>2. InOrder'
    BY <1>1, <1>2, <2>1 DEF IInv, InOrder
  <2>3. Deserved'
    BY <1>1, <1>2, <2>1 DEF IInv, Deserved, Recorded
  <2> QED BY <2>2, <2>3
<1>4. CASE SendConfig
  <2>1. /\ out' = Sent("SETCONFIG") /\ UNCHANGED <<db, failed>> /\ cma.txn.step = "send"
        /\ cma'.txn.step = "commit" /\ cma'.txn.for = cma.txn.for /\ cma'.txn.dup = cma.txn.dup
        /\ cma'.joined = cma.txn.for
    BY <1>1, <1>4 DEF SendConfig, CmaType, Txn
  <2>2. \A i \in 1 .. Len(out') :
            /\ out'[i].for <= nano.id
            /\ out'[i].type = "ACKSTARTUP" /\ out'[i].for = nano.id => Recorded
    BY <1>1, <1>2, <2>1, SentStep
  <2>3. InOrder'
    BY <1>1, <1>2, <2>1, <2>2, Numbers DEF IInv, InOrder
  <2>4. Deserved'
    BY <1>1, <1>2, <2>1, <2>2 DEF IInv, InOrder, Deserved, Recorded
  <2> QED BY <2>3, <2>4
<1>5. CASE CommitDb
  <2>1. /\ UNCHANGED <<out, failed>> /\ cma'.joined = cma.joined /\ cma.joined = cma.txn.for
        /\ db' = db \/ db'.joined = cma.txn.for
        /\ db' = db => cma.txn.dup \/ db.joined = cma.txn.for
        /\ \/ cma'.txn = NoTxn
           \/ cma'.txn.step = "ack" /\ cma'.txn.for = cma.txn.for /\ cma'.txn.dup = cma.txn.dup
    BY <1>1, <1>5 DEF CommitDb, CmaType, Txn, IInv, InOrder
  <2>2. InOrder'
    BY <1>1, <1>2, <2>1, Numbers DEF IInv, InOrder, NoTxn
  <2>3. Recorded => Recorded'
    BY <1>1, <1>2, <2>1, Numbers DEF IInv, InOrder, Recorded
  <2>4. cma.joined = nano.id => Recorded'
    BY <1>1, <1>2, <2>1, <2>3 DEF IInv, Deserved, Recorded
  <2> QED BY <1>1, <1>2, <2>1, <2>2, <2>3, <2>4 DEF IInv, Deserved, NoTxn
<1>6. CASE CommitFails
  <2>1. /\ UNCHANGED <<out, db>> /\ cma'.txn = NoTxn /\ cma.joined = cma.txn.for
        /\ cma.txn.step = "commit"
        /\ \/ failed' = failed /\ cma'.joined = db.joined
           \/ failed' = failed /\ cma'.joined = cma.joined /\ cma.txn.dup
           \/ failed' = cma.txn.for /\ cma'.joined = cma.joined
    BY <1>1, <1>6 DEF CommitFails, CmaType, IInv, InOrder
  <2>2. InOrder'
    BY <1>1, <1>2, <2>1, Numbers DEF IInv, InOrder, NoTxn
  <2>3. Recorded => Recorded'
    BY <1>1, <1>2, <2>1, Numbers DEF IInv, InOrder, Recorded
  <2>4. cma'.joined = nano.id => Recorded'
    BY <1>1, <1>2, <2>1, <2>3 DEF IInv, Deserved, Recorded
  <2> QED BY <1>1, <1>2, <2>1, <2>2, <2>3, <2>4 DEF IInv, Deserved, NoTxn
<1>7. CASE SendAck
  <2>1. /\ out' = Sent("ACKSTARTUP") /\ UNCHANGED <<db, failed>> /\ cma.txn.step = "ack"
        /\ cma'.txn = NoTxn /\ cma'.joined = cma.joined
    BY <1>1, <1>7 DEF SendAck, CmaType
  <2>2. \A i \in 1 .. Len(out') :
            /\ out'[i].for <= nano.id
            /\ out'[i].type = "ACKSTARTUP" /\ out'[i].for = nano.id => Recorded
    <3>1. cma.txn.for = nano.id => Recorded
      BY <2>1 DEF IInv, Deserved
    <3> QED BY <1>1, <1>2, <2>1, <3>1, SentStep
  <2>3. InOrder'
    BY <1>1, <1>2, <2>1, <2>2, Numbers DEF IInv, InOrder, NoTxn
  <2>4. Deserved'
    BY <1>1, <1>2, <2>1, <2>2 DEF IInv, Deserved, Recorded, NoTxn
  <2> QED BY <2>3, <2>4
<1> QED BY <1>3, <1>4, <1>5, <1>6, <1>7

LEMMA CmaStep ==
    ASSUME IInv,
           \/ SaveNanoKeyFails \/ JoinFails \/ Forget \/ ConnClosed \/ AckTimeout \/ DeathReport
           \/ ConnShut \/ NanoTraffic \/ CmaCrash \/ CmaStart \/ \E m \in net : Lose(m)
    PROVE  InOrder' /\ Deserved'
<1>1. UNCHANGED <<nano, db, misled, failed>> /\ net' \subseteq net
  BY DEF SaveNanoKeyFails, JoinFails, Forget, ConnClosed, AckTimeout, DeathReport, ConnShut,
         NanoTraffic, CmaCrash, CmaStart, Lose, Drop, CloseConn, nanovars, cmavars
<1>2. /\ \/ cma'.txn = cma.txn /\ cma'.joined = cma.joined
         \/ cma'.txn = NoTxn /\ cma.txn.step # "commit" /\ cma'.joined = cma.joined
         \/ cma'.txn = NoTxn /\ cma'.joined = db.joined
      /\ out' = out \/ out' = <<>>
  <2>1. cma \in CmaType
    BY Numbers DEF IInv
  <2>2. CASE SaveNanoKeyFails \/ JoinFails
    BY <2>1, <2>2 DEF SaveNanoKeyFails, JoinFails, CmaType
  <2>3. CASE ConnClosed \/ AckTimeout
    BY <2>1, <2>3 DEF ConnClosed, AckTimeout, Drop, CmaType
  <2>4. CASE DeathReport \/ ConnShut \/ NanoTraffic
    BY <2>1, <2>4 DEF DeathReport, ConnShut, NanoTraffic, CloseConn, CmaType
  <2>5. CASE CmaCrash
    BY <2>5 DEF CmaCrash
  <2>6. CASE CmaStart \/ Forget
    BY <2>1, <2>6 DEF CmaStart, Forget, Ready, CmaType
  <2>7. CASE \E m \in net : Lose(m)
    BY <2>7 DEF Lose, cmavars
  <2> QED BY <2>2, <2>3, <2>4, <2>5, <2>6, <2>7
<1> QED BY <1>1, <1>2, Less DEF IInv, InOrder

LEMMA InitInv == Init => IInv
<1> SUFFICES ASSUME Init PROVE IInv
  OBVIOUS
<1>1. InOrder /\ Deserved
  BY DEF Init, Down, NoTxn, InOrder, Deserved, Recorded
<1> QED BY <1>1, InitType DEF IInv

LEMMA StepInv ==
    ASSUME IInv, [Next]_vars
    PROVE  IInv'
<1>1. TInv'
  BY StepType DEF IInv
<1>2. CASE UNCHANGED vars
  BY <1>1, <1>2 DEF vars, IInv, InOrder, Deserved, Recorded
<1>3. CASE \E m \in net : \E again \in BOOLEAN : DispatchStartup(m, again)
  BY <1>1, <1>3, DispatchStep DEF IInv
<1>4. CASE Next /\ ~\E m \in net : \E again \in BOOLEAN : DispatchStartup(m, again)
  BY <1>1, <1>4, KeysStep, StartStep, AskingStep, GotFrameSetStep, EndStep,
     TransactionStep, CmaStep DEF Next, IInv
<1> QED BY <1>2, <1>3, <1>4

\* A nanoprobe that will ask no more is in the CMA's database, but for two cases: it
\* has taken the answer to the process before it for its own, or a commit of its
\* registration has failed.  However fast it was started again, whatever the CMA was
\* doing at that time, and whatever crashed.
THEOREM Registered == Spec => [](nano.complete => db.joined = nano.id \/ ToldInError)
<1>1. IInv /\ [Next]_vars => IInv'
  BY StepInv
<1>2. IInv => (nano.complete => db.joined = nano.id \/ ToldInError)
  BY DEF IInv, Deserved, Recorded, ToldInError
<1> QED BY InitInv, <1>1, <1>2, PTL DEF Spec

-----------------------------------------------------------------------------
(* Each step of Startup is one of Registration, or none.                   *)

LEMMA InitImplements == Init => Registry!Init
BY DEF Init, Down, Registry!Init

LEMMA NothingRegistered ==
    ASSUME nano'.id = nano.id, nano'.complete = nano.complete, db'.joined = db.joined,
           misled' = misled, failed' = failed
    PROVE  UNCHANGED Registry!vars
BY DEF Registry!vars, ToldInError

LEMMA QuietStep ==
    ASSUME IInv,
           \/ InstallCmaKey \/ SavePublic \/ SavePrivate \/ SaveFails
           \/ StartDiscovery \/ StartAsking \/ AskAgain
           \/ \E m \in net : (\E again \in BOOLEAN : DispatchStartup(m, again)) \/ Lose(m)
           \/ SaveNanoKey \/ SaveNanoKeyFails \/ SendConfig \/ JoinFails \/ SendAck \/ Forget
           \/ ConnClosed \/ AckTimeout \/ DeathReport \/ ConnShut \/ NanoTraffic
           \/ CmaCrash \/ CmaStart
    PROVE  UNCHANGED Registry!vars
<1>1. /\ nano'.id = nano.id /\ nano'.complete = nano.complete
      /\ UNCHANGED <<db, misled, failed>>
  <2>1. CASE \/ InstallCmaKey \/ SavePublic \/ SavePrivate \/ SaveFails
             \/ StartDiscovery \/ StartAsking \/ AskAgain
    BY <2>1 DEF InstallCmaKey, SavePublic, SavePrivate, SaveFails, StartDiscovery, StartAsking,
                AskAgain, ReqConfig, cmavars, IInv, TInv, TypeOK
  <2>2. CASE \E m \in net : (\E again \in BOOLEAN : DispatchStartup(m, again)) \/ Lose(m)
    BY <2>2 DEF DispatchStartup, Lose, nanovars, cmavars
  <2>3. CASE SaveNanoKey \/ SaveNanoKeyFails \/ SendConfig \/ JoinFails \/ SendAck \/ Forget
    BY <2>3 DEF SaveNanoKey, SaveNanoKeyFails, SendConfig, JoinFails, SendAck, Forget, nanovars
  <2>4. CASE ConnClosed \/ AckTimeout \/ DeathReport \/ ConnShut \/ NanoTraffic
    BY <2>4 DEF ConnClosed, AckTimeout, DeathReport, ConnShut, NanoTraffic, Drop, CloseConn,
                nanovars
  <2>5. CASE CmaCrash \/ CmaStart
    BY <2>5 DEF CmaCrash, CmaStart, nanovars
  <2> QED BY <2>1, <2>2, <2>3, <2>4, <2>5
<1> QED BY <1>1, NothingRegistered

LEMMA StartImplements ==
    ASSUME Start PROVE Registry!Start
<1>1. PICK keys \in KnownKeys : InitializeKeys(keys)
  BY DEF Start, StartFull
<1>2. nano'.id = nano.id + 1 /\ nano'.complete = FALSE
  BY <1>1 DEF InitializeKeys, Down
<1> QED BY <1>2 DEF Start, cmavars, Registry!Start

\* Taking leave changes nothing, an end forgets what was told.
LEMMA EndImplements ==
    ASSUME IInv, CheckForSignals \/ ShutdownWhenOutdone \/ NanoCrash
    PROVE  Registry!Stop \/ UNCHANGED Registry!vars
<1>1. UNCHANGED <<db, misled, failed>>
  BY DEF CheckForSignals, ShutdownWhenOutdone, NanoCrash, cmavars
<1>2. CASE Ended
  BY <1>1, <1>2 DEF Ended, Down, Registry!Stop
<1>3. CASE nano' = [nano EXCEPT !.stopping = TRUE]
  <2>1. nano'.id = nano.id /\ nano'.complete = nano.complete
    BY <1>3, Numbers DEF IInv, NanoType
  <2> QED BY <1>1, <2>1, NothingRegistered
<1> QED BY <1>2, <1>3 DEF CheckForSignals, InitiateShutdown, ShutdownWhenOutdone, NanoCrash

\* What is being committed is for no earlier process than what was committed before.
LEMMA CommitImplements ==
    ASSUME IInv, CommitDb PROVE Registry!Register \/ UNCHANGED Registry!vars
<1>1. /\ cma.txn # NoTxn
      /\ db'.joined = db.joined \/ db'.joined = cma.txn.for
      /\ UNCHANGED <<nano, misled, failed>>
  BY DEF CommitDb, NoTxn, nanovars
<1>2. db'.joined \in Nat /\ db.joined <= db'.joined /\ db'.joined <= nano.id
  BY <1>1, Numbers DEF IInv, InOrder
<1>3. CASE db'.joined = db.joined
  BY <1>1, <1>3, NothingRegistered
<1>4. CASE db'.joined # db.joined
  <2>1. db'.joined \in (db.joined + 1) .. nano.id
    BY <1>2, <1>4, Numbers DEF IInv
  <2> QED BY <1>1, <2>1 DEF Registry!Register, ToldInError
<1> QED BY <1>3, <1>4

\* A commit that fails puts in doubt what was told, no more.
LEMMA FailureImplements ==
    ASSUME IInv, CommitFails
    PROVE  Registry!Stop \/ UNCHANGED Registry!vars
<1>1. UNCHANGED <<nano, db, misled>> /\ (failed' = failed \/ failed' = cma.txn.for)
  BY DEF CommitFails, nanovars
<1>2. CASE failed' = failed
  BY <1>1, <1>2, NothingRegistered
<1>3. CASE failed' = nano.id
  BY <1>1, <1>3 DEF Registry!Stop, ToldInError
<1>4. CASE failed' # failed /\ failed' # nano.id
  <2>1. failed # nano.id
    <3>1. cma.txn # NoTxn
      BY DEF CommitFails, NoTxn
    <3> QED BY <1>1, <1>4, <3>1, Numbers DEF IInv, InOrder
  <2> QED BY <1>1, <1>4, <2>1 DEF Registry!vars, ToldInError
<1> QED BY <1>2, <1>3, <1>4

\* An ACKSTARTUP that arrives is deserved, or it misleads.
LEMMA GotFrameSetImplements ==
    ASSUME IInv, GotFrameset
    PROVE  \/ Registry!Tell \/ Registry!Stop \/ UNCHANGED Registry!vars
<1>1. Head(out) \in Reply /\ Head(out) = out[1] /\ 1 \in 1 .. Len(out)
  <2>1. out \in Seq(Reply) /\ out # <<>>
    BY Numbers DEF IInv, GotFrameset
  <2> QED BY <2>1, HeadTailProperties
<1>2. Head(out).type \in {"SETCONFIG", "ACKSTARTUP"}
  BY <1>1 DEF Reply
<1>3. \/ UNCHANGED <<nano, misled>> \/ SetConfig
      \/ AckStartup /\ Head(out).type = "ACKSTARTUP"
  BY <1>2 DEF GotFrameset
<1>4. UNCHANGED <<db, failed>>
  BY DEF GotFrameset
<1>5. CASE UNCHANGED <<nano, misled>> \/ SetConfig
  <2>1. nano'.id = nano.id /\ nano'.complete = nano.complete /\ misled' = misled
    BY <1>5, Numbers DEF SetConfig, IInv, NanoType
  <2> QED BY <1>4, <2>1, NothingRegistered
<1>6. CASE AckStartup /\ Head(out).type = "ACKSTARTUP"
  <2>1. /\ nano'.id = nano.id /\ nano'.complete = TRUE
        /\ misled' = (misled \/ Head(out).for # nano.id)
    BY <1>6, Numbers DEF AckStartup, IInv, NanoType
  <2>2. CASE misled' \/ failed = nano.id
    BY <1>4, <2>1, <2>2 DEF Registry!Stop, ToldInError
  <2>3. CASE ~misled' /\ failed # nano.id
    <3>1. db.joined = nano.id
      BY <1>1, <1>6, <2>1, <2>3 DEF IInv, Deserved, Recorded
    <3> QED BY <1>4, <2>1, <2>3, <3>1 DEF Registry!Tell, ToldInError
  <2> QED BY <2>2, <2>3
<1> QED BY <1>3, <1>5, <1>6

LEMMA StepImplements ==
    ASSUME IInv, [Next]_vars PROVE [Registry!Next]_(Registry!vars)
<1>1. CASE UNCHANGED vars
  BY <1>1 DEF vars, Registry!vars, ToldInError
<1>2. CASE Start
  BY <1>2, StartImplements DEF Registry!Next
<1>3. CASE CheckForSignals \/ ShutdownWhenOutdone \/ NanoCrash
  BY <1>3, EndImplements DEF Registry!Next
<1>4. CASE CommitDb \/ CommitFails
  BY <1>4, CommitImplements, FailureImplements DEF Registry!Next
<1>5. CASE GotFrameset
  BY <1>5, GotFrameSetImplements DEF Registry!Next
<1> QED BY <1>1, <1>2, <1>3, <1>4, <1>5, QuietStep DEF Next

\* Startup implements Registration: a nanoprobe is told of its registration only after
\* the CMA has committed that of this very process, and the database never goes back to
\* an earlier one.  A process that is told in error (theorem Registered) is not counted
\* as told.
THEOREM Implements == Spec => ImplementsRegistration
<1>1. IInv /\ [Next]_vars => IInv'
  BY StepInv
<1>2. IInv /\ [Next]_vars => [Registry!Next]_(Registry!vars)
  BY StepImplements
<1> QED BY InitInv, InitImplements, <1>1, <1>2, PTL DEF Spec, ImplementsRegistration, Registry!Spec

-----------------------------------------------------------------------------
(* Keys in files: what is known of a key outside of the nanoprobe's files  *)
(* is known of the only one that is there in both halves.                  *)

\* The nanoprobe has the private half of k in a file.
Secret(k) == files[k]["private"] = "whole"

OneKey ==
    /\ \A k \in KeyId : Secret(k) => k # CmaKey /\ files[k]["public"] = "whole"
    /\ \A k, l \in KeyId : Secret(k) /\ Secret(l) => k = l

\* A nanoprobe that makes a key has no other.
Making ==
    /\ nano.phase \in Half => mem.signing = NoKey /\ \A k \in KeyId : ~Secret(k)
    /\ nano.phase = "private" => files[NewKey]["public"] = "whole"

\* The keys the nanoprobe signs with, has sent, the CMA works with and has stored
Known ==
    /\ mem.signing # NoKey => Secret(mem.signing)
    /\ \A m \in net : m.key # NoKey => Secret(m.key)
    /\ cma.txn # NoTxn => Secret(cma.txn.key)
    /\ db.key # NoKey => Secret(db.key)

\* The CMA stores a key in its database after it has it in a file.
CmaHas ==
    /\ \A k \in cmem.public : cfiles[k]["public"] = "whole"
    /\ db.key # NoKey => cfiles[db.key]["public"] = "whole"
    /\ cma.txn.step \in {"send", "commit", "ack"} => cfiles[cma.txn.key]["public"] = "whole"
    /\ cma.txn.step = "save" => db.key = NoKey

KeysInv == OneKey /\ Making /\ Known /\ CmaHas

LEMMA HalfOfKey ==
    ASSUME NEW disk \in KeyFiles, NEW k \in KeyId, NEW h \in Half, NEW file \in File,
           NEW l \in KeyId, NEW g \in Half
    PROVE  /\ SaveAKey(disk, k, h)[l][g] = IF l = k /\ g = h THEN "whole" ELSE disk[l][g]
           /\ PurgeFiles(disk, k)[l][g] = IF l = k THEN "absent" ELSE disk[l][g]
           /\ [disk EXCEPT ![k][h] = file][l][g] = IF l = k /\ g = h THEN file ELSE disk[l][g]
BY DEF KeyFiles, SaveAKey, PurgeFiles

LEMMA PublicHalves ==
    ASSUME NEW keys \in KeyMemory, NEW k \in KeyId, NEW who \in Identity, NEW addr \in Addr
    PROVE  /\ PublicKeyNew(keys, k).public = keys.public \cup {k}
           /\ AssociateIdentity(keys, who, k).public = keys.public
           /\ PurgeKeyId(keys, k).public = keys.public \ {k}
           /\ SetSigningKeyId(keys, k).public = keys.public
           /\ SetDestKeyId(keys, addr, k).public = keys.public
BY DEF KeyMemory, PublicKeyNew, AssociateIdentity, PurgeKeyId, SetSigningKeyId, SetDestKeyId

LEMMA SigningKeys ==
    ASSUME NEW keys \in KeyMemory, NEW k \in KeyId, NEW who \in Identity, NEW addr \in Addr
    PROVE  /\ PublicKeyNew(keys, k).signing = keys.signing
           /\ PrivateKeyNew(keys, k).signing = keys.signing
           /\ AssociateIdentity(keys, who, k).signing = keys.signing
           /\ AssociateIdentity(keys, who, k).private = keys.private
           /\ PurgeKeyId(keys, k).signing = keys.signing
           /\ SetSigningKeyId(keys, k).signing = IF k \in keys.private THEN k ELSE keys.signing
           /\ SetDestKeyId(keys, addr, k).signing = keys.signing
BY DEF KeyMemory, PublicKeyNew, PrivateKeyNew, AssociateIdentity, PurgeKeyId, SetSigningKeyId,
       SetDestKeyId

\* A new process finds what is in its files.
LEMMA CachedKeys ==
    ASSUME NEW disk, NEW keys, keys = CacheAllKeypairs(disk, NoKeys)
    PROVE  /\ keys \in KeyMemory /\ keys.signing = NoKey
           /\ \A k \in KeyId : k \in keys.public <=> disk[k]["public"] = "whole"
           /\ \A k \in KeyId : k \in keys.private <=>
                  disk[k]["public"] = "whole" /\ disk[k]["private"] = "whole"
<1> DEFINE Cached(k) == CacheKeypair(disk, NoKeys, k)
           Found == {k \in KeyId : k \in Cached(k).public}
           Whole == {k \in Found : k \in Cached(k).private}
<1>1. NoKeys.public = {} /\ NoKeys.private = {} /\ NoKeys.signing = NoKey
  BY DEF NoKeys
<1>2. ASSUME NEW k \in KeyId
      PROVE  /\ k \in Cached(k).public <=> disk[k]["public"] = "whole"
             /\ k \in Cached(k).public /\ k \in Cached(k).private <=>
                    disk[k]["public"] = "whole" /\ disk[k]["private"] = "whole"
  <2> DEFINE some == PublicKeyNew(NoKeys, k)
             both == PrivateKeyNew(some, k)
  <2>1. NoKeys \in KeyMemory /\ some \in KeyMemory
    BY NoKeysType DEF KeyMemory, PublicKeyNew
  <2>2. some.public = {k} /\ some.private = {}
    BY <1>1, <2>1 DEF PublicKeyNew, KeyMemory
  <2>3. both.public = {k} /\ both.private = {k}
    <3> HIDE DEF some
    <3> QED BY <2>1, <2>2 DEF PrivateKeyNew, KeyMemory
  <2>4. Cached(k) = IF disk[k]["public"] # "whole" THEN NoKeys
                    ELSE IF disk[k]["private"] = "whole" THEN both ELSE some
    BY <1>1 DEF CacheKeypair
  <2> HIDE DEF some, both, Cached
  <2> QED BY <1>1, <2>2, <2>3, <2>4
<1>3. keys = [NoKeys EXCEPT !.public = Found, !.private = Whole]
  BY DEF CacheAllKeypairs
<1>4. keys \in KeyMemory
  BY NoKeysType, CachedType
<1>5. keys.public = Found /\ keys.private = Whole /\ keys.signing = NoKey
  <2> HIDE DEF Found, Whole
  <2> QED BY <1>1, <1>3, NoKeysType DEF KeyMemory
<1> HIDE DEF Cached
<1> QED BY <1>2, <1>4, <1>5

LEMMA CmaKeysPublic ==
    ASSUME NEW disk, NEW k \in CmaKeys(disk).public
    PROVE  k \in KeyId /\ disk[k]["public"] = "whole"
<1> DEFINE found == CacheAllKeypairs(disk, NoKeys)
           known == AssociateIdentity(found, "CMA", CmaKey)
<1>1. found \in KeyMemory
  BY CachedKeys
<1>2. known \in KeyMemory /\ known.public = found.public
  <2> HIDE DEF found
  <2> QED BY <1>1, AssumedTypes, MemoryKeepsType, PublicHalves
<1>3. CmaKeys(disk) = SetSigningKeyId(known, CmaKey)
  BY DEF CmaKeys
<1>4. CmaKeys(disk).public = found.public
  <2> HIDE DEF known
  <2> QED BY <1>2, <1>3, AssumedTypes, PublicHalves
<1>5. k \in KeyId
  BY <1>1, <1>4 DEF KeyMemory
<1> QED BY <1>4, <1>5, CachedKeys

\* A nanoprobe signs with the key it has, and makes one if it has none.
LEMMA KnownKeysSign ==
    ASSUME OneKey, NEW keys \in KnownKeys
    PROVE  /\ keys.signing # NoKey => keys.signing \in KeyId /\ Secret(keys.signing)
           /\ keys.signing = NoKey => \A k \in KeyId : ~Secret(k)
<1> DEFINE found == CacheAllKeypairs(files, NoKeys)
           known == AssociateIdentity(found, "CMA", CmaKey)
           Own   == {k \in found.public \ {CmaKey} : SetSigningKeyId(known, k).signing = k}
<1>1. found \in KeyMemory /\ found.signing = NoKey
      /\ (\A k \in KeyId : k \in found.public <=> files[k]["public"] = "whole")
      /\ (\A k \in KeyId : k \in found.private <=> files[k]["public"] = "whole" /\ Secret(k))
  BY CachedKeys DEF Secret
<1>2. keys \in IF Own = {} THEN {known} ELSE {SetSigningKeyId(known, k) : k \in Own}
  BY DEF KnownKeys
<1> HIDE DEF found
<1>3. known \in KeyMemory /\ known.signing = NoKey /\ known.private = found.private
  BY <1>1, AssumedTypes, MemoryKeepsType, SigningKeys
<1> HIDE DEF known
<1>4. \A k \in KeyId : SetSigningKeyId(known, k).signing = IF k \in found.private THEN k ELSE NoKey
  BY <1>3, AssumedTypes, SigningKeys
<1>5. \A k \in Own : k \in KeyId /\ Secret(k) /\ SetSigningKeyId(known, k).signing = k
  BY <1>1, <1>4, AssumedTypes DEF KeyMemory
<1>6. \A k \in KeyId : Secret(k) => k \in Own
  BY <1>1, <1>4 DEF OneKey
<1> HIDE DEF Own
<1>7. CASE Own = {}
  BY <1>2, <1>3, <1>6, <1>7
<1>8. CASE Own # {}
  BY <1>2, <1>5, <1>8, AssumedTypes
<1> QED BY <1>7, <1>8

\* What the CMA works on, and what it has stored, are keys.
LEMMA TxnKey ==
    ASSUME TInv
    PROVE  (cma.txn # NoTxn => cma.txn.key \in KeyId) /\ db.key \in KeyId \cup {NoKey}
BY DEF TInv, TypeOK, Txn

\* A step that writes no key and learns of none
LEMMA NothingNew ==
    ASSUME KeysInv, files' = files, mem'.signing \in {mem.signing, NoKey},
           nano'.phase \notin Half, net' \subseteq net, db' = db,
           cma'.txn = cma.txn \/ cma'.txn = NoTxn
    PROVE  OneKey' /\ Making' /\ Known'
<1>1. \A k : Secret(k)' <=> Secret(k)
  BY DEF Secret
<1>2. OneKey'
  BY <1>1 DEF KeysInv, OneKey
<1>3. Making'
  BY DEF Making, Half
<1>4. Known'
  BY <1>1 DEF KeysInv, Known
<1> QED BY <1>2, <1>3, <1>4

LEMMA CmaHasStill ==
    ASSUME KeysInv, cfiles' = cfiles, cmem'.public \subseteq cmem.public, db' = db,
           cma'.txn = cma.txn \/ cma'.txn = NoTxn
    PROVE  CmaHas'
BY DEF KeysInv, CmaHas, NoTxn

\* The nanoprobe's files change.
LEMMA WritesKeepKeys ==
    ASSUME TInv, KeysInv, InstallCmaKey \/ SavePublic \/ SavePrivate \/ SaveFails
    PROVE  KeysInv'
<1>1. UNCHANGED <<net, cma, db, cmem, cfiles>>
  BY DEF InstallCmaKey, SavePublic, SavePrivate, SaveFails, cmavars
<1>2. CmaHas'
  BY <1>1, CmaHasStill
<1>3. files \in KeyFiles /\ mem \in KeyMemory /\ nano \in NanoType /\ CmaKey \in KeyId
      /\ "whole" \in File /\ "public" \in Half /\ "private" \in Half
      /\ mem.signing \in KeyId \cup {NoKey} /\ (\A m \in net : m.key \in KeyId \cup {NoKey})
  BY AssumedTypes DEF TInv, TypeOK, NanoType, KeyMemory, File, Half
<1>4. nano.phase # "down" => NewKey \in KeyId /\ NewKey # CmaKey /\ NewKey' = NewKey
  <2> SUFFICES ASSUME nano.phase # "down"
               PROVE  NewKey \in KeyId /\ NewKey # CmaKey /\ NewKey' = NewKey
    OBVIOUS
  <2>1. nano.id \in 1 .. Len(NanoKeys)
    BY <1>3, AssumedTypes DEF TInv, Numbered, Process, NanoType
  <2>3. nano'.id = nano.id
    BY <1>3 DEF InstallCmaKey, SavePublic, SavePrivate, SaveFails, NanoType
  <2>2. NanoKeys[nano.id] \in KeyId \ {CmaKey}
    BY <2>1, StartupAssumption, ElementOfSeq
  <2> QED BY <2>1, <2>2, <2>3 DEF NewKey
<1>5. CASE InstallCmaKey
  <2>1. \A k \in KeyId : (Secret(k)' <=> Secret(k))
            /\ (files[k]["public"] = "whole" => files'[k]["public"] = "whole")
    BY <1>3, <1>5, HalfOfKey DEF InstallCmaKey, Secret
  <2>2. OneKey'
    BY <2>1 DEF KeysInv, OneKey
  <2>3. UNCHANGED <<nano, mem>>
    BY <1>5 DEF InstallCmaKey
  <2>4. Making'
    BY <1>4, <2>1, <2>3 DEF KeysInv, Making, Half
  <2>5. Known'
    BY <1>1, <1>3, <2>1, <2>3, TxnKey DEF KeysInv, Known
  <2> QED BY <1>2, <2>2, <2>4, <2>5 DEF KeysInv
<1>6. CASE SavePublic \/ SavePrivate \/ SaveFails
  <2>1. nano.phase \in Half /\ nano.phase # "down" /\ nano'.id = nano.id /\ mem.signing = NoKey
        /\ (\A k \in KeyId : ~Secret(k))
    BY <1>3, <1>6 DEF SavePublic, SavePrivate, SaveFails, Half, KeysInv, Making, NanoType
  <2>2. (\A m \in net : m.key = NoKey) /\ cma.txn = NoTxn /\ db.key = NoKey
    BY <1>3, <2>1, TxnKey DEF KeysInv, Known
  <2>3. CASE SavePublic
    <3>1. files' = SaveAKey(files, NewKey, "public") /\ nano'.phase = "private" /\ mem' = mem
      BY <1>3, <2>3 DEF SavePublic, NanoType
    <3>2. \A k \in KeyId : ~Secret(k)'
      BY <1>3, <1>4, <2>1, <3>1, HalfOfKey DEF Secret
    <3>3. files'[NewKey]["public"] = "whole"
      BY <1>3, <1>4, <2>1, <3>1, HalfOfKey
    <3>4. Making'
      BY <1>4, <2>1, <3>1, <3>2, <3>3 DEF Making
    <3>5. OneKey' /\ Known'
      BY <1>1, <2>1, <2>2, <3>1, <3>2 DEF OneKey, Known
    <3> QED BY <1>2, <3>4, <3>5 DEF KeysInv
  <2>4. CASE SavePrivate
    <3>1. /\ files' = SaveAKey(files, NewKey, "private") /\ nano'.phase = "init"
          /\ mem' = SetSigningKeyId(PublicKeyNew(PrivateKeyNew(mem, NewKey), NewKey), NewKey)
          /\ files[NewKey]["public"] = "whole"
      BY <1>3, <2>4 DEF SavePrivate, NanoType, KeysInv, Making
    <3>2. \A k \in KeyId : Secret(k)' <=> k = NewKey
      BY <1>3, <1>4, <2>1, <3>1, HalfOfKey DEF Secret
    <3>3. files'[NewKey]["public"] = "whole"
      BY <1>3, <1>4, <2>1, <3>1, HalfOfKey
    <3>4. Making'
      BY <3>1 DEF Making, Half
    <3>5. OneKey'
      BY <1>4, <2>1, <3>2, <3>3 DEF OneKey
    <3>6. mem'.signing \in {NewKey, NoKey}
      <4> DEFINE one == PrivateKeyNew(mem, NewKey)
                 two == PublicKeyNew(one, NewKey)
      <4>1. one \in KeyMemory /\ one.signing = NoKey
        BY <1>3, <1>4, <2>1, AssumedTypes, MemoryKeepsType, SigningKeys
      <4> HIDE DEF one
      <4>2. two \in KeyMemory /\ two.signing = NoKey
        BY <1>3, <1>4, <2>1, <4>1, AssumedTypes, MemoryKeepsType, SigningKeys
      <4>3. mem' = SetSigningKeyId(two, NewKey)
        BY <3>1 DEF one
      <4> HIDE DEF two
      <4> QED BY <1>3, <1>4, <2>1, <4>2, <4>3, AssumedTypes, SigningKeys
    <3>7. Known'
      BY <1>1, <1>4, <2>1, <2>2, <3>2, <3>6 DEF Known
    <3> QED BY <1>2, <3>4, <3>5, <3>7 DEF KeysInv
  <2>5. CASE SaveFails
    <3>1. /\ files' = PurgeFiles(files, NewKey) /\ nano'.phase = "init"
          /\ mem'.signing = NoKey
      BY <1>3, <1>4, <2>1, <2>5, AssumedTypes, SigningKeys DEF SaveFails, NanoType
    <3>2. \A k \in KeyId : ~Secret(k)'
      BY <1>3, <1>4, <2>1, <3>1, HalfOfKey DEF Secret
    <3>3. Making'
      BY <3>1 DEF Making, Half
    <3>4. OneKey' /\ Known'
      BY <1>1, <2>2, <3>1, <3>2 DEF OneKey, Known
    <3> QED BY <1>2, <3>3, <3>4 DEF KeysInv
  <2> QED BY <1>6, <2>3, <2>4, <2>5
<1> QED BY <1>5, <1>6

\* A nanoprobe starts, asks, listens and ends.
LEMMA NanoKeepsKeys ==
    ASSUME TInv, KeysInv,
           \/ Start \/ StartDiscovery \/ StartAsking \/ AskAgain \/ GotFrameset
           \/ CheckForSignals \/ ShutdownWhenOutdone
    PROVE  KeysInv'
<1>1. /\ UNCHANGED <<files, db, cmem, cfiles>> /\ cma'.txn = cma.txn
  BY DEF Start, StartDiscovery, StartAsking, AskAgain, GotFrameset, CheckForSignals,
         ShutdownWhenOutdone, cmavars, TInv, TypeOK
<1>2. CmaHas'
  BY <1>1, CmaHasStill
<1>3. mem \in KeyMemory /\ nano \in NanoType
  BY DEF TInv, TypeOK, NanoType
<1>4. (\A k : Secret(k)' <=> Secret(k)) /\ OneKey'
  BY <1>1 DEF Secret, KeysInv, OneKey
<1>5. CASE Start
  <2>1. PICK keys \in KnownKeys : InitializeKeys(keys)
    BY <1>5 DEF Start, StartFull
  <2>2. keys.signing # NoKey => keys.signing \in KeyId /\ Secret(keys.signing)
    BY <2>1, KnownKeysSign DEF KeysInv
  <2>3. keys.signing = NoKey => \A k \in KeyId : ~Secret(k)
    BY <2>1, KnownKeysSign DEF KeysInv
  <2>4. mem' = keys /\ nano'.phase \in {"public", "init"}
        /\ (nano'.phase = "public" => keys.signing = NoKey)
    BY <2>1 DEF InitializeKeys, Down
  <2>5. net' = net
    BY <1>5 DEF Start
  <2>6. Making'
    BY <1>4, <2>3, <2>4 DEF Making, Half
  <2>7. Known'
    BY <1>1, <1>4, <2>2, <2>4, <2>5 DEF KeysInv, Known
  <2> QED BY <1>2, <1>4, <2>6, <2>7 DEF KeysInv
<1>6. CASE StartAsking \/ AskAgain
  <2>1. /\ mem' = mem /\ nano'.phase \notin Half
        /\ \A m \in net' : m \in net \/ m = StartupFrameSet
    BY <1>3, <1>6 DEF StartAsking, AskAgain, ReqConfig, NanoType, Half
  <2>2. StartupFrameSet.key \in {mem.signing, NoKey}
    BY DEF StartupFrameSet
  <2>3. Making'
    BY <2>1 DEF Making, Half
  <2>4. Known'
    BY <1>1, <1>4, <2>1, <2>2 DEF KeysInv, Known
  <2> QED BY <1>2, <1>4, <2>3, <2>4 DEF KeysInv
<1>7. CASE StartDiscovery
  <2>1. mem' = mem /\ net' = net /\ nano'.phase = "wait"
    BY <1>3, <1>7 DEF StartDiscovery, NanoType
  <2> QED BY <1>1, <1>2, <2>1, NothingNew DEF KeysInv, Half
<1>8. CASE GotFrameset
  <2>1. nano.phase \notin Half /\ net' = net
    BY <1>8 DEF GotFrameset, Listening, Half
  <2>2. UNCHANGED <<nano, mem>> \/ SetConfig \/ AckStartup
    <3>1. out \in Seq(Reply) /\ out # <<>>
      BY <1>8 DEF TInv, TypeOK, Reply, GotFrameset
    <3>2. Head(out) \in Reply
      BY <3>1, HeadTailProperties
    <3>3. Head(out).type \in {"SETCONFIG", "ACKSTARTUP"}
      BY <3>2 DEF Reply
    <3> QED BY <1>8, <3>3 DEF GotFrameset
  <2>3. nano'.phase = nano.phase
    BY <1>3, <2>2 DEF SetConfig, AckStartup, NanoType
  <2>4. ReplyKey \in KeyMemory /\ ReplyKey.signing = mem.signing
    BY <1>3, AssumedTypes, MemoryKeepsType, SigningKeys DEF ReplyKey
  <2>5. AssociateCmaAddrs(ReplyKey).signing = mem.signing
    <3> DEFINE one == SetDestKeyId(ReplyKey, "cma", CmaKey)
    <3>1. one \in KeyMemory /\ one.signing = mem.signing
      BY <2>4, AssumedTypes, MemoryKeepsType, SigningKeys
    <3> HIDE DEF one
    <3>2. SetDestKeyId(one, "cmainit", CmaKey).signing = mem.signing
      BY <3>1, AssumedTypes, SigningKeys
    <3> QED BY <3>2 DEF AssociateCmaAddrs, one
  <2>6. mem'.signing = mem.signing
    BY <2>2, <2>4, <2>5 DEF SetConfig, AckStartup
  <2> QED BY <1>1, <1>2, <2>1, <2>3, <2>6, NothingNew DEF KeysInv
<1>9. CASE CheckForSignals \/ ShutdownWhenOutdone
  <2>1. CASE Ended
    <3>1. mem'.signing = NoKey /\ nano'.phase = "down" /\ net' = {}
      BY <2>1 DEF Ended, NoKeys, Down
    <3> QED BY <1>1, <1>2, <3>1, NothingNew DEF KeysInv, Half
  <2>2. CASE ~Ended
    <3>1. nano.phase \notin Half /\ nano' = [nano EXCEPT !.stopping = TRUE] /\ UNCHANGED <<mem, net>>
      BY <1>9, <2>2 DEF CheckForSignals, ShutdownWhenOutdone, InitiateShutdown, Listening, Half
    <3>2. nano'.phase = nano.phase
      BY <1>3, <3>1 DEF NanoType
    <3> QED BY <1>1, <1>2, <3>1, <3>2, NothingNew DEF KeysInv
  <2> QED BY <2>1, <2>2
<1> QED BY <1>5, <1>6, <1>7, <1>8, <1>9

\* A nanoprobe that dies while it writes a key had no other, and nobody knows it.
LEMMA NanoCrashKeepsKeys ==
    ASSUME TInv, KeysInv, NanoCrash
    PROVE  KeysInv'
<1>1. /\ UNCHANGED <<cma, db, cmem, cfiles>> /\ nano.phase # "down"
      /\ mem'.signing = NoKey /\ nano'.phase = "down" /\ net' = {}
  BY DEF NanoCrash, Ended, NoKeys, Down, cmavars
<1>2. CmaHas'
  BY <1>1, CmaHasStill
<1>3. CASE nano.phase \notin Half
  BY <1>1, <1>2, <1>3, NothingNew DEF NanoCrash, KeysInv, Half
<1>4. CASE nano.phase \in Half
  <2>1. PICK file \in File : files' = [files EXCEPT ![NewKey][nano.phase] = file]
    BY <1>4 DEF NanoCrash
  <2>2. NewKey \in KeyId /\ NewKey # CmaKey
    <3>1. nano.id \in 1 .. Len(NanoKeys)
      BY <1>1, AssumedTypes DEF TInv, TypeOK, Numbered, Process
    <3>2. NanoKeys[nano.id] \in KeyId \ {CmaKey}
      BY <3>1, StartupAssumption, ElementOfSeq
    <3> QED BY <3>2 DEF NewKey
  <2>3. files \in KeyFiles /\ "public" \in Half /\ "private" \in Half
    BY DEF TInv, TypeOK, Half
  <2>4. \A k \in KeyId : ~Secret(k)
    BY <1>4 DEF KeysInv, Making
  <2>5. \A k \in KeyId : Secret(k)' => k = NewKey /\ nano.phase = "private"
    BY <1>4, <2>1, <2>2, <2>3, <2>4, HalfOfKey DEF Secret
  <2>6. nano.phase = "private" => files'[NewKey]["public"] = "whole"
    BY <1>4, <2>1, <2>2, <2>3, HalfOfKey DEF KeysInv, Making
  <2>7. OneKey'
    BY <2>2, <2>5, <2>6 DEF OneKey
  <2>8. cma.txn = NoTxn /\ db.key = NoKey
    BY <2>4, TxnKey DEF KeysInv, Known
  <2>9. Known'
    BY <1>1, <2>8 DEF Known
  <2>10. Making'
    BY <1>1 DEF Making, Half
  <2> QED BY <1>2, <2>7, <2>9, <2>10 DEF KeysInv
<1> QED BY <1>3, <1>4

LEMMA DispatchKeepsKeys ==
    ASSUME TInv, KeysInv, NEW m \in net, NEW again \in BOOLEAN, DispatchStartup(m, again)
    PROVE  KeysInv'
<1>1. UNCHANGED <<nano, mem, files, cmem, cfiles, db>> /\ net' \subseteq net
  BY DEF DispatchStartup, nanovars
<1>2. OneKey' /\ Making'
  BY <1>1 DEF KeysInv, OneKey, Making, Secret, NewKey
<1>3. (\A k : Secret(k)' <=> Secret(k)) /\ db'.key = db.key
  BY <1>1 DEF Secret
<1>4. \/ cma'.txn = cma.txn
      \/ \E step \in {"save", "send"} :
          /\ Acceptable(m) /\ cma'.txn = Answered(m, step)
          /\ step = "save" => db.key = NoKey
          /\ step = "send" => db.key # NoKey \/ DroneKey(m) \in cmem.public
  <2> DEFINE step == IF db.key = NoKey /\ DroneKey(m) \notin cmem.public THEN "save" ELSE "send"
  <2>1. CASE Acceptable(m)
    <3>1. cma' = [cma EXCEPT !.txn = Answered(m, step)]
      BY <2>1 DEF DispatchStartup
    <3> HIDE DEF step
    <3>2. cma'.txn = Answered(m, step)
      BY <3>1 DEF TInv, TypeOK
    <3>3. /\ step \in {"save", "send"}
          /\ step = "save" => db.key = NoKey
          /\ step = "send" => db.key # NoKey \/ DroneKey(m) \in cmem.public
      BY DEF step
    <3> QED BY <2>1, <3>2, <3>3
  <2>2. CASE ~Acceptable(m)
    BY <2>2 DEF DispatchStartup
  <2> QED BY <2>1, <2>2
<1>5. CASE cma'.txn = cma.txn
  <2>1. Known'
    BY <1>1, <1>3, <1>5 DEF KeysInv, Known
  <2> QED BY <1>1, <1>2, <1>5, <2>1, CmaHasStill DEF KeysInv
<1>6. ASSUME Acceptable(m), NEW step \in {"save", "send"}, cma'.txn = Answered(m, step),
             step = "save" => db.key = NoKey,
             step = "send" => db.key # NoKey \/ DroneKey(m) \in cmem.public
      PROVE  KeysInv'
  <2>1. cma'.txn.key = DroneKey(m) /\ cma'.txn.step = step
    BY <1>6 DEF Answered
  <2>2. Secret(DroneKey(m)) /\ (db.key # NoKey => db.key = DroneKey(m))
    BY <1>6 DEF Acceptable, DroneKey, KeysInv, Known
  <2>3. Known'
    BY <1>1, <1>3, <2>1, <2>2 DEF KeysInv, Known
  <2>4. step = "send" => cfiles[DroneKey(m)]["public"] = "whole"
    BY <1>6, <2>2 DEF KeysInv, CmaHas
  <2>5. CmaHas'
    BY <1>1, <1>6, <2>1, <2>4 DEF KeysInv, CmaHas
  <2> QED BY <1>2, <2>3, <2>5 DEF KeysInv
<1> QED BY <1>4, <1>5, <1>6

\* The transaction: the file first, then the database.
LEMMA TransactionKeepsKeys ==
    ASSUME TInv, KeysInv,
           \/ SaveNanoKey \/ SaveNanoKeyFails \/ SendConfig \/ JoinFails
           \/ CommitDb \/ CommitFails \/ SendAck
    PROVE  KeysInv'
<1>1. UNCHANGED <<nano, mem, files, net>>
  BY DEF SaveNanoKey, SaveNanoKeyFails, SendConfig, JoinFails, CommitDb, CommitFails, SendAck, nanovars
<1>2. OneKey' /\ Making' /\ (\A k : Secret(k)' <=> Secret(k))
  BY <1>1 DEF KeysInv, OneKey, Making, Secret, NewKey
<1>3. /\ cma \in CmaType /\ cma.txn \in Txn /\ cma.txn.key \in KeyId
      /\ cma.txn # NoTxn /\ cmem \in KeyMemory /\ cfiles \in KeyFiles /\ "public" \in Half
      /\ "whole" \in File
  <2>1. cma.txn.step \in {"save", "send", "commit", "ack"}
    BY DEF SaveNanoKey, SaveNanoKeyFails, SendConfig, JoinFails, CommitDb, CommitFails, SendAck
  <2> QED BY <2>1, TxnType DEF TInv, TypeOK, CmaType, Half, File, NoTxn
<1>4. Secret(cma.txn.key)
  BY <1>3 DEF KeysInv, Known
<1>5. db'.key \in {db.key, cma.txn.key} /\ (cma'.txn = NoTxn \/ cma'.txn.key = cma.txn.key)
  <2>1. CASE SaveNanoKey
    BY <1>3, <2>1 DEF SaveNanoKey, CmaType, Txn
  <2>4. CASE SendConfig
    BY <1>3, <2>4 DEF SendConfig, CmaType, Txn
  <2>2. CASE SaveNanoKeyFails \/ JoinFails \/ CommitFails \/ SendAck
    BY <1>3, <2>2 DEF SaveNanoKeyFails, JoinFails, CommitFails, SendAck, CmaType
  <2>3. CASE CommitDb
    BY <1>3, <2>3 DEF CommitDb, CmaType, Txn
  <2> QED BY <2>1, <2>2, <2>3, <2>4
<1>6. Known'
  BY <1>1, <1>2, <1>4, <1>5 DEF KeysInv, Known
<1>7. \A k \in cmem.public : k \in KeyId /\ cfiles[k]["public"] = "whole"
  BY <1>3 DEF KeysInv, CmaHas, KeyMemory
<1>8. CASE SaveNanoKey
  <2>1. /\ db' = db /\ cma'.txn.step = "send" /\ cma'.txn.key = cma.txn.key /\ db.key = NoKey
        /\ cmem'.public = cmem.public \cup {cma.txn.key}
        /\ cfiles' = SaveAKey(cfiles, cma.txn.key, "public")
    BY <1>3, <1>8, AssumedTypes, PublicHalves DEF SaveNanoKey, CmaType, Txn, KeysInv, CmaHas
  <2>2. \A k \in KeyId : cfiles'[k]["public"] = IF k = cma.txn.key THEN "whole" ELSE cfiles[k]["public"]
    BY <1>3, <2>1, HalfOfKey
  <2>3. CmaHas'
    BY <1>3, <1>7, <2>1, <2>2 DEF CmaHas
  <2> QED BY <1>2, <1>6, <2>3 DEF KeysInv
<1>9. CASE SaveNanoKeyFails
  <2>1. /\ db' = db /\ cma'.txn = NoTxn /\ db.key = NoKey
        /\ cmem'.public = cmem.public \ {cma.txn.key}
        /\ cfiles' = PurgeFiles(cfiles, cma.txn.key)
    BY <1>3, <1>9, AssumedTypes, PublicHalves DEF SaveNanoKeyFails, CmaType, KeysInv, CmaHas
  <2>2. \A k \in KeyId : k # cma.txn.key => cfiles'[k]["public"] = cfiles[k]["public"]
    BY <1>3, <2>1, HalfOfKey
  <2>3. CmaHas'
    BY <1>7, <2>1, <2>2 DEF CmaHas, NoTxn
  <2> QED BY <1>2, <1>6, <2>3 DEF KeysInv
<1>10. CASE SendConfig \/ JoinFails
  <2> DEFINE known == AssociateIdentity(cmem, "drone", cma.txn.key)
  <2>1. known \in KeyMemory /\ known.public = cmem.public
    BY <1>3, AssumedTypes, MemoryKeepsType, PublicHalves
  <2> HIDE DEF known
  <2>2. SetDestKeyId(known, "drone", cma.txn.key).public = cmem.public
    BY <1>3, <2>1, AssumedTypes, PublicHalves
  <2>3. /\ cmem'.public = cmem.public /\ UNCHANGED <<cfiles, db>> /\ cma.txn.step = "send"
        /\ cma'.txn = NoTxn \/ (cma'.txn.step = "commit" /\ cma'.txn.key = cma.txn.key)
    <3>1. cmem' = SetDestKeyId(known, "drone", cma.txn.key)
      BY <1>10 DEF SendConfig, JoinFails, DroneKeys, known
    <3>2. CASE SendConfig
      BY <1>3, <2>2, <3>1, <3>2 DEF SendConfig, CmaType, Txn
    <3>3. CASE JoinFails
      BY <1>3, <2>2, <3>1, <3>3 DEF JoinFails, CmaType
    <3> QED BY <1>10, <3>2, <3>3
  <2>4. CmaHas'
    BY <2>3 DEF KeysInv, CmaHas, NoTxn
  <2> QED BY <1>2, <1>6, <2>4 DEF KeysInv
<1>11. CASE CommitDb
  <2>1. /\ UNCHANGED <<cmem, cfiles>> /\ db'.key \in {db.key, cma.txn.key}
        /\ cma.txn.step = "commit"
        /\ cma'.txn = NoTxn \/ (cma'.txn.step = "ack" /\ cma'.txn.key = cma.txn.key)
    BY <1>3, <1>11 DEF CommitDb, CmaType, Txn
  <2>2. CmaHas'
    BY <2>1 DEF KeysInv, CmaHas, NoTxn
  <2> QED BY <1>2, <1>6, <2>2 DEF KeysInv
<1>12. CASE CommitFails \/ SendAck
  <2>1. UNCHANGED <<cmem, cfiles, db>> /\ cma'.txn = NoTxn
    BY <1>3, <1>12 DEF CommitFails, SendAck, CmaType
  <2> QED BY <1>2, <1>6, <2>1, CmaHasStill DEF KeysInv
<1> QED BY <1>8, <1>9, <1>10, <1>11, <1>12

\* The connection, and a CMA that dies and starts again.
LEMMA CmaKeepsKeys ==
    ASSUME TInv, KeysInv,
           \/ ConnClosed \/ AckTimeout \/ DeathReport \/ ConnShut \/ NanoTraffic
           \/ CmaCrash \/ CmaStart \/ Forget \/ \E m \in net : Lose(m)
    PROVE  KeysInv'
<1>1. UNCHANGED <<nano, mem, files, db>> /\ net' \subseteq net
      /\ (cma'.txn = cma.txn \/ cma'.txn = NoTxn)
  <2>1. cma \in CmaType
    BY DEF TInv, TypeOK, CmaType
  <2>2. CASE CmaCrash \/ CmaStart \/ Forget
    <3>1. UNCHANGED <<nanovars, net, db>>
      BY <2>2 DEF CmaCrash, CmaStart, Forget
    <3>2. cma'.txn = cma.txn \/ cma'.txn = NoTxn
      <4>1. CASE CmaCrash
        BY <4>1 DEF CmaCrash
      <4>2. CASE CmaStart
        BY <2>1, <4>2 DEF CmaStart, CmaType
      <4>3. CASE Forget
        BY <2>1, <4>3 DEF Forget, CmaType
      <4> QED BY <2>2, <4>1, <4>2, <4>3
    <3> QED BY <3>1, <3>2 DEF nanovars
  <2>3. CASE ~(CmaCrash \/ CmaStart \/ Forget)
    BY <2>1, <2>3 DEF ConnClosed, AckTimeout, DeathReport, ConnShut, NanoTraffic, Lose, Drop,
                      CloseConn, nanovars, cmavars, CmaType
  <2> QED BY <2>2, <2>3
<1>2. OneKey' /\ Making' /\ (\A k : Secret(k)' <=> Secret(k))
  BY <1>1 DEF KeysInv, OneKey, Making, Secret, NewKey
<1>3. Known'
  BY <1>1, <1>2 DEF KeysInv, Known
<1>4. CASE CmaCrash
  <2>1. cmem'.public = {} /\ cma'.txn = NoTxn
    BY <1>4 DEF CmaCrash, NoKeys
  <2>2. db'.key # NoKey => cfiles' = cfiles
    BY <1>1, <1>4 DEF CmaCrash, KeysInv, CmaHas
  <2>4. CmaHas'
    BY <1>1, <2>1, <2>2 DEF KeysInv, CmaHas, NoTxn
  <2> QED BY <1>2, <1>3, <2>4 DEF KeysInv
<1>5. CASE CmaStart
  <2>1. cmem' = CmaKeys(cfiles) /\ cfiles' = cfiles
    BY <1>5 DEF CmaStart
  <2>2. \A k \in cmem'.public : cfiles'[k]["public"] = "whole"
    BY <2>1, CmaKeysPublic
  <2>3. CmaHas'
    BY <1>1, <2>1, <2>2 DEF KeysInv, CmaHas, NoTxn
  <2> QED BY <1>2, <1>3, <2>3 DEF KeysInv
<1>6. CASE \/ ConnClosed \/ AckTimeout \/ DeathReport \/ ConnShut \/ NanoTraffic
           \/ Forget \/ \E m \in net : Lose(m)
  <2>1. UNCHANGED <<cmem, cfiles>>
    BY <1>6 DEF ConnClosed, AckTimeout, DeathReport, ConnShut, NanoTraffic, Forget, Lose, Drop, CloseConn, cmavars
  <2> QED BY <1>1, <1>2, <1>3, <2>1, CmaHasStill DEF KeysInv
<1> QED BY <1>4, <1>5, <1>6

LEMMA KeysInvInit == Init => KeysInv
<1> SUFFICES ASSUME Init PROVE KeysInv
  OBVIOUS
<1>1. \A k \in KeyId : ~Secret(k)
  BY DEF Init, NoFiles, Secret, Half
<1>2. mem.signing = NoKey /\ nano.phase = "down" /\ net = {} /\ cma.txn = NoTxn /\ db.key = NoKey
  BY DEF Init, NoKeys, Down
<1>3. \A k \in cmem.public : cfiles[k]["public"] = "whole"
  BY CmaKeysPublic DEF Init
<1>4. OneKey /\ Making /\ Known
  BY <1>1, <1>2 DEF OneKey, Making, Known, Half
<1>5. CmaHas
  BY <1>2, <1>3 DEF CmaHas, NoTxn
<1> QED BY <1>4, <1>5 DEF KeysInv

LEMMA KeysInvStep ==
    ASSUME TInv, KeysInv, [Next]_vars
    PROVE  KeysInv'
<1>1. CASE UNCHANGED vars
  BY <1>1 DEF vars, KeysInv, OneKey, Making, Known, CmaHas, Secret, NewKey
<1>2. CASE \E m \in net : \E again \in BOOLEAN : DispatchStartup(m, again)
  BY <1>2, DispatchKeepsKeys
<1>3. CASE Next /\ ~\E m \in net : \E again \in BOOLEAN : DispatchStartup(m, again)
  BY <1>3, WritesKeepKeys, NanoKeepsKeys, NanoCrashKeepsKeys, TransactionKeepsKeys, CmaKeepsKeys DEF Next
<1> QED BY <1>1, <1>2, <1>3

\* The key the CMA's database holds for the drone is in a file at both ends, in both
\* halves at the nanoprobe, which finds no other one to sign with when it starts again:
\* whoever dies in the middle of a write, and whatever is lost or fails.
THEOREM AcceptedKeyStaysWhole == Spec => []AcceptedKeyIsWhole
<1>1. TInv /\ [Next]_vars => TInv'
  BY StepType
<1>2. TInv /\ KeysInv /\ [Next]_vars => KeysInv'
  BY KeysInvStep
<1>3. TInv /\ KeysInv => AcceptedKeyIsWhole
  <2> SUFFICES ASSUME TInv, KeysInv, db.key # NoKey
               PROVE  /\ \A h \in Half : files[db.key][h] = "whole"
                      /\ cfiles[db.key]["public"] = "whole"
                      /\ \A k \in KeyId \ {db.key} : files[k]["private"] # "whole"
    BY DEF AcceptedKeyIsWhole
  <2>1. db.key \in KeyId /\ Secret(db.key)
    BY TxnKey DEF KeysInv, Known
  <2>2. cfiles[db.key]["public"] = "whole"
    BY DEF KeysInv, CmaHas
  <2> QED BY <2>1, <2>2 DEF KeysInv, OneKey, Secret, Half
<1> QED BY InitType, KeysInvInit, <1>1, <1>2, <1>3, PTL DEF Spec
=============================================================================
