------------------------------ MODULE Startup ------------------------------
(***************************************************************************)
(* How a nanoprobe finds its keys, asks the CMA for its configuration and  *)
(* is registered (clientlib/nanoprobe.c, nanoprobe/nanomain.c, cma/        *)
(* dispatchtarget.py and cma/messagedispatcher.py), with a CMA and a       *)
(* nanoprobe that may die between any two steps and start again.           *)
(*                                                                         *)
(* STARTUP FrameSets are sent outside of the reliable protocol: they may   *)
(* be lost and duplicated.  They do not outlive the nanoprobe that sent    *)
(* them; module HbRing looks at those that do.  What the CMA sends back is *)
(* reliable: it stays in a queue until it is ACKed, and is lost only with  *)
(* the CMA's end of the connection.  A nanoprobe that has restarted takes  *)
(* the session up where it is (clientlib/fsqueue.c:129).                   *)
(***************************************************************************)
EXTENDS Keys, Naturals, Sequences

CONSTANTS
    CmaKey,      \* the CMA's key id
    NanoKeys,    \* the key id the n-th nanoprobe process would generate
    MaxFault,    \* bound: crashes, failing writes and commits, false alarms
    MaxOut       \* bound: FrameSets in the queue when one more STARTUP is read

ASSUME StartupAssumption ==
    /\ CmaKey \in KeyId
    /\ NanoKeys \in Seq(KeyId \ {CmaKey})
    /\ MaxFault \in Nat /\ MaxOut \in Nat
    /\ {"CMA", "drone"} \subseteq Identity
    /\ {"cmainit", "cma", "drone"} \subseteq Addr

VARIABLES
    nano,   \* the nanoprobe: its startup as far as it has come
    mem,    \* its keys in memory
    files,  \* its key files
    net,    \* STARTUP FrameSets on their way
    cma,    \* the CMA: its end of the connection, the FrameSet it is dispatching, its Drone
    cmem,   \* its keys in memory
    cfiles, \* its key files
    db,     \* its database: the drone's key_id and lastjoin
    out,    \* FrameSets for the nanoprobe that are not ACKed yet
    misled, \* history: has this process taken an ACKSTARTUP for another to be its own?
    failed, \* history: the last process whose registration could not be committed
    faults  \* how many faults there have been

vars == <<nano, mem, files, misled, net, cma, cmem, cfiles, db, failed, out, faults>>
nanovars == <<nano, mem, files, misled>>
cmavars == <<cma, cmem, cfiles, db, failed>>

\* The process is given by its starttime, "for" in what is meant for it.  A key
\* of the process is made in phases "public" and "private"; nano_startupidle is in
\* one of its states in "init" and "wait", the timer for nano_reqconfig runs in "asking".
Phase == {"down", "public", "private", "init", "wait", "asking", "idle"}
Process == 0 .. Len(NanoKeys)

Txn   == [step : {"save", "send", "commit", "ack"}, for : Process, key : KeyId,
          ack : BOOLEAN, dup : BOOLEAN]
NoTxn == [step |-> "none", for |-> 0, key |-> NoKey, ack |-> FALSE, dup |-> FALSE]

\* configured: nano_connected, and _nano_initconfig_OK: SETCONFIG makes both true.
\* joined: lastjoin of the Drone object, which is not always what the database has.
\* ghost: the ring holds a Drone that was never written (_insertpoint1).
TypeOK ==
    /\ nano \in [id : Process, phase : Phase, enabled : BOOLEAN,
                 configured : BOOLEAN, complete : BOOLEAN, stopping : BOOLEAN]
    /\ mem \in KeyMemory /\ cmem \in KeyMemory
    /\ files \in KeyFiles /\ cfiles \in KeyFiles
    /\ net \subseteq [for : Process, key : KeyId \cup {NoKey}, sealed : BOOLEAN]
    /\ cma \in [up : BOOLEAN, conn : {"NONE", "INIT", "UP", "SHUT"},
                txn : Txn \cup {NoTxn}, joined : Process, ghost : BOOLEAN]
    /\ db \in [key : KeyId \cup {NoKey}, joined : Process]
    /\ out \in Seq([type : {"SETCONFIG", "ACKSTARTUP"}, for : Process, key : KeyId])
    /\ misled \in BOOLEAN /\ failed \in Process
    /\ faults \in 0 .. MaxFault

NoFiles == [k \in KeyId |-> [h \in Half |-> "absent"]]

Down(id) == [id |-> id, phase |-> "down", enabled |-> FALSE,
             configured |-> FALSE, complete |-> FALSE, stopping |-> FALSE]

\* The CMA begins with its own key pair, cmainit has seen to that.
CmaFiles == [NoFiles EXCEPT ![CmaKey] = [h \in Half |-> "whole"]]

CmaKeys(disk) ==
    SetSigningKeyId(AssociateIdentity(CacheAllKeypairs(disk, NoKeys), "CMA", CmaKey), CmaKey)

Init ==
    /\ nano = Down(0) /\ mem = NoKeys /\ files = NoFiles
    /\ net = {} /\ out = <<>>
    /\ cma = [up |-> TRUE, conn |-> "NONE", txn |-> NoTxn, joined |-> 0, ghost |-> FALSE]
    /\ cfiles = CmaFiles /\ cmem = CmaKeys(CmaFiles)
    /\ db = [key |-> NoKey, joined |-> 0]
    /\ misled = FALSE /\ failed = 0 /\ faults = 0

Fault == faults < MaxFault /\ faults' = faults + 1

Listening == nano.phase \in {"init", "wait", "asking", "idle"}

-----------------------------------------------------------------------------
(* The nanoprobe's keys                                                    *)

\* The administrator brings the CMA's public key.
InstallCmaKey ==
    /\ files[CmaKey]["public"] = "absent"
    /\ files' = SaveAKey(files, CmaKey, "public")
    /\ UNCHANGED <<nano, mem, misled, net, cmavars, out, faults>>

\* The first part of nanoprobe_initialize_keys: the keys of this system are
\* those it has generated.
KnownKeys ==
    LET found == CacheAllKeypairs(files, NoKeys)
        known == AssociateIdentity(found, "CMA", CmaKey)
        Own   == {k \in found.public \ {CmaKey} : SetSigningKeyId(known, k).signing = k}
    IN  IF Own = {} THEN {known} ELSE {SetSigningKeyId(known, k) : k \in Own}

\* Enabled once there are a CMA key and a key to sign with.
InitializeKeys(keys) ==
    /\ mem' = keys
    /\ nano' = [Down(nano.id + 1) EXCEPT
                  !.enabled = keys.identity[CmaKey] = "CMA" /\ keys.signing # NoKey,
                  !.phase = IF keys.identity[CmaKey] = "CMA" /\ keys.signing = NoKey
                              THEN "public" ELSE "init"]

\* nano_start_full: the keys, and an idle function that does the rest
StartFull == \E keys \in KnownKeys : InitializeKeys(keys)

\* main, up to the main loop
Start ==
    /\ nano.phase = "down" /\ nano.id < Len(NanoKeys)
    /\ StartFull /\ misled' = FALSE
    /\ UNCHANGED <<files, net, cmavars, out, faults>>

NewKey == NanoKeys[nano.id]

\* cryptcurve25519_gen_persistent_keypair: the public half is saved first, ...
SavePublic ==
    /\ nano.phase = "public"
    /\ files' = SaveAKey(files, NewKey, "public")
    /\ nano' = [nano EXCEPT !.phase = "private"]
    /\ UNCHANGED <<mem, misled, net, cmavars, out, faults>>

\* ... then the private one, and then they are known and used.
SavePrivate ==
    /\ nano.phase = "private"
    /\ files' = SaveAKey(files, NewKey, "private")
    /\ mem' = SetSigningKeyId(PublicKeyNew(PrivateKeyNew(mem, NewKey), NewKey), NewKey)
    /\ nano' = [nano EXCEPT !.phase = "init", !.enabled = TRUE]
    /\ UNCHANGED <<misled, net, cmavars, out, faults>>

\* A file that cannot be written: the nanoprobe runs without encryption.
SaveFails ==
    /\ nano.phase \in {"public", "private"} /\ Fault
    /\ files' = PurgeFiles(files, NewKey)
    /\ mem' = PurgeKeyId(mem, NewKey)
    /\ nano' = [nano EXCEPT !.phase = "init"]
    /\ UNCHANGED <<misled, net, cmavars, out>>

-----------------------------------------------------------------------------
(* Asking for the configuration                                            *)

\* A STARTUP with the key this nanoprobe signs with, if it signs.
StartupFrameSet == [for |-> nano.id, key |-> IF nano.enabled THEN mem.signing ELSE NoKey,
                    sealed |-> nano.enabled /\ SealedFor(mem, "cmainit")]

\* Mutant: a configuration is enough to stop asking.
ReqConfigOnce(phase) ==
    /\ phase = "asking" /\ ~nano.stopping
    /\ IF nano.configured
         THEN nano' = [nano EXCEPT !.phase = "idle"] /\ UNCHANGED net
         ELSE nano' = [nano EXCEPT !.phase = "asking"] /\ net' = net \cup {StartupFrameSet}

\* nano_reqconfig, called every five seconds until it has nothing to ask for
ReqConfig(phase) ==
    /\ phase = "asking" /\ ~nano.stopping
    /\ IF nano.configured /\ nano.complete
         THEN nano' = [nano EXCEPT !.phase = "idle"] /\ UNCHANGED net
         ELSE nano' = [nano EXCEPT !.phase = "asking"] /\ net' = net \cup {StartupFrameSet}

\* nano_startupidle runs netconfig, ...
StartDiscovery ==
    /\ nano.phase = "init" /\ ~nano.stopping
    /\ nano' = [nano EXCEPT !.phase = "wait"]
    /\ UNCHANGED <<mem, files, misled, net, cmavars, out, faults>>

\* ... and once that is done it asks at once and sets the timer.
StartAsking ==
    /\ nano.phase = "wait" /\ ReqConfig("asking")
    /\ UNCHANGED <<mem, files, misled, cmavars, out, faults>>

AskAgain ==
    /\ ReqConfig(nano.phase)
    /\ UNCHANGED <<mem, files, misled, cmavars, out, faults>>

-----------------------------------------------------------------------------
(* Receiving what the CMA says                                             *)

\* _nanoprobe_is_cma_frameset, of a FrameSet the CMA has signed
IsCmaFrameset == nano.enabled => mem.identity[CmaKey] = "CMA"

\* What is sent back to where that came from is encrypted, if anything is.
ReplyKey == IF nano.enabled THEN SetDestKeyId(mem, "cma", CmaKey) ELSE mem

\* What is sent to any address of the CMA is encrypted from now on.
AssociateCmaAddrs(keys) == SetDestKeyId(SetDestKeyId(keys, "cma", CmaKey), "cmainit", CmaKey)

SetConfig ==
    /\ nano' = [nano EXCEPT !.configured = TRUE]
    /\ mem' = AssociateCmaAddrs(ReplyKey)
    /\ UNCHANGED misled

\* Whose STARTUP is answered is not asked.
AckStartup ==
    /\ nano' = [nano EXCEPT !.complete = TRUE]
    /\ misled' = (misled \/ Head(out).for # nano.id)
    /\ mem' = ReplyKey

\* _authlistener_got_frameset, for a FrameSet that could be decrypted.  It is
\* ACKed whatever came of it, and the ACK shows the CMA that somebody is there.
GotFrameset ==
    /\ Listening /\ out # <<>>
    /\ Head(out).key \in mem.private /\ CmaKey \in mem.public
    /\ CASE ~IsCmaFrameset                   -> UNCHANGED <<nano, mem, misled>>
         [] Head(out).type = "SETCONFIG"     -> SetConfig
         [] Head(out).type = "ACKSTARTUP"    -> AckStartup
    /\ out' = Tail(out)
    /\ cma' = [cma EXCEPT !.conn = IF @ = "INIT" THEN "UP" ELSE @]
    /\ UNCHANGED <<files, net, cmem, cfiles, db, failed, faults>>

-----------------------------------------------------------------------------
(* The end of a nanoprobe                                                  *)

\* nano_shutdown and the end of main: nothing is left in memory.
Ended ==
    /\ nano' = Down(nano.id) /\ mem' = NoKeys
    /\ net' = {}

\* nano_initiate_shutdown: only a nanoprobe that is connected takes its leave.
InitiateShutdown ==
    IF nano.configured
      THEN nano' = [nano EXCEPT !.stopping = TRUE] /\ UNCHANGED <<mem, net>>
      ELSE Ended

\* The timer that looks for a signal, when there has been one
CheckForSignals ==
    /\ Listening /\ ~nano.stopping
    /\ InitiateShutdown
    /\ UNCHANGED <<files, misled, cmavars, out, faults>>

\* shutdown_when_outdone: everything is ACKed, or it has been waiting for too long.
ShutdownWhenOutdone ==
    /\ nano.stopping /\ Ended
    /\ UNCHANGED <<files, misled, cmavars, out, faults>>

\* A nanoprobe that dies in a write leaves the file in one state or another.
NanoCrash ==
    /\ nano.phase # "down" /\ Fault /\ Ended
    /\ IF nano.phase \in Half
         THEN \E file \in File : files' = [files EXCEPT ![NewKey][nano.phase] = file]
         ELSE UNCHANGED files
    /\ UNCHANGED <<misled, cmavars, out>>

-----------------------------------------------------------------------------
(* The CMA                                                                 *)

Ready == cma.up /\ cma.txn = NoTxn

\* The key the drone is to be sent to with, if there is one that is acceptable.
DroneKey(m) == IF m.key = NoKey THEN db.key ELSE m.key

Acceptable(m) == DroneKey(m) # NoKey /\ db.key \in {NoKey, DroneKey(m)}

\* Timeouts do not make a connection inactive.
ConnActive == cma.conn \in {"INIT", "UP"}

\* ACKSTARTUP will be sent if no connection was active.  Closing that one anew
\* changes nothing.  The Drone object tells a duplicate: the database is not asked
\* as long as there is one (Store._localsearch).
Answered(m, step) ==
    [step |-> step, for |-> m.for, key |-> DroneKey(m), ack |-> ~ConnActive,
     dup |-> cma.joined = m.for]

\* DispatchSTARTUP.dispatch up to the point where the key is saved.  A STARTUP of
\* an unacceptable key has no other effect.
DispatchStartup(m, again) ==
    /\ Ready /\ m \in net /\ Len(out) < MaxOut
    /\ m.sealed => m.key \in cmem.public
    /\ net' = IF again THEN net ELSE net \ {m}
    /\ IF Acceptable(m)
         THEN cma' = [cma EXCEPT !.txn =
                        Answered(m, IF db.key = NoKey /\ DroneKey(m) \notin cmem.public
                                      THEN "save" ELSE "send")]
         ELSE UNCHANGED cma
    /\ UNCHANGED <<nanovars, cmem, cfiles, db, failed, out, faults>>

\* cryptcurve25519_save_public_key
SaveNanoKey ==
    /\ cma.up /\ cma.txn.step = "save"
    /\ cfiles' = SaveAKey(cfiles, cma.txn.key, "public")
    /\ cmem' = PublicKeyNew(cmem, cma.txn.key)
    /\ cma' = [cma EXCEPT !.txn.step = "send"]
    /\ UNCHANGED <<nanovars, net, db, failed, out, faults>>

\* It cannot be saved: a ValueError, and no more comes of the STARTUP.
SaveNanoKeyFails ==
    /\ cma.up /\ cma.txn.step = "save" /\ Fault
    /\ cfiles' = PurgeFiles(cfiles, cma.txn.key)
    /\ cmem' = PurgeKeyId(cmem, cma.txn.key)
    /\ cma' = [cma EXCEPT !.txn = NoTxn]
    /\ UNCHANGED <<nanovars, net, db, failed, out>>

\* _fsprotocol_send1: a connection that is being shut down takes nothing, and the
\* caller is not told.
Sent(type) ==
    IF cma.conn = "SHUT" THEN out
    ELSE Append(out, [type |-> type, for |-> cma.txn.for, key |-> cma.txn.key])

Opened == IF cma.conn = "NONE" THEN "INIT" ELSE cma.conn

\* set_crypto_identity and dest_set_key_id
DroneKeys == SetDestKeyId(AssociateIdentity(cmem, "drone", cma.txn.key), "drone", cma.txn.key)

\* Mutant: the packets that are to wait for the database go with the others.
SendConfigAcked ==
    /\ cma.up /\ cma.txn.step = "send"
    /\ cmem' = DroneKeys
    /\ out' = Sent("SETCONFIG") \o (IF cma.txn.ack THEN Sent("ACKSTARTUP") ELSE <<>>)
    /\ cma' = [cma EXCEPT !.txn.step = "commit", !.txn.ack = FALSE, !.conn = Opened,
                          !.joined = cma.txn.for]
    /\ UNCHANGED <<nanovars, net, cfiles, db, failed, faults>>

\* The rest of the dispatch, lastjoin and HbRing.join, and the network half of the
\* transaction: SETCONFIG, encrypted for the drone's key.
SendConfig ==
    /\ cma.up /\ cma.txn.step = "send"
    /\ cmem' = DroneKeys
    /\ out' = Sent("SETCONFIG")
    /\ cma' = [cma EXCEPT !.txn.step = "commit", !.conn = Opened, !.joined = cma.txn.for]
    /\ UNCHANGED <<nanovars, net, cfiles, db, failed, faults>>

\* HbRing.join fails when it comes upon a ghost: what was to be sent is forgotten, and
\* so is the new Drone.
JoinFails ==
    /\ cma.up /\ cma.txn.step = "send" /\ cma.ghost
    /\ cmem' = DroneKeys
    /\ cma' = [cma EXCEPT !.txn = NoTxn]
    /\ UNCHANGED <<nanovars, net, cfiles, db, failed, out, faults>>

\* The database half.  A duplicate has nothing to write.
CommitDb ==
    /\ cma.up /\ cma.txn.step = "commit"
    /\ db' = IF cma.txn.dup THEN db ELSE [key |-> cma.txn.key, joined |-> cma.txn.for]
    /\ cma' = [cma EXCEPT !.txn = IF cma.txn.ack THEN [@ EXCEPT !.step = "ack"] ELSE NoTxn,
                          !.ghost = FALSE]
    /\ UNCHANGED <<nanovars, net, cmem, cfiles, failed, out, faults>>

\* Store.abort forgets what was to be written, and nothing else.  A Drone that is in
\* the database keeps its lastjoin, and the next STARTUP is a duplicate.  A new one is
\* not found again, but the ring holds it.  With a ghost there, no fault is needed.
CommitFails ==
    /\ cma.up /\ cma.txn.step = "commit"
    /\ IF cma.ghost THEN UNCHANGED faults ELSE Fault
    /\ IF db.key = NoKey
         THEN /\ cma' = [cma EXCEPT !.txn = NoTxn, !.joined = db.joined, !.ghost = TRUE]
              /\ UNCHANGED failed
         ELSE /\ cma' = [cma EXCEPT !.txn = NoTxn]
              /\ failed' = IF cma.txn.dup THEN failed ELSE cma.txn.for
    /\ UNCHANGED <<nanovars, net, cmem, cfiles, db, out>>

\* What other drones do moves the ring's insert points on, and a Drone nobody holds is
\* read again when it is needed; or one of their transactions has read it anew.
Forget ==
    /\ Ready /\ (cma.ghost \/ cma.joined # db.joined)
    /\ cma' = [cma EXCEPT !.joined = db.joined, !.ghost = FALSE]
    /\ UNCHANGED <<nanovars, net, cmem, cfiles, db, failed, out, faults>>

\* The packets that were to be sent after the transaction.
SendAck ==
    /\ cma.up /\ cma.txn.step = "ack"
    /\ out' = Sent("ACKSTARTUP")
    /\ cma' = [cma EXCEPT !.txn = NoTxn, !.conn = Opened]
    /\ UNCHANGED <<nanovars, net, cmem, cfiles, db, failed, faults>>

-----------------------------------------------------------------------------
(* The CMA's end of the connection                                         *)

\* A shutdown ends with the CONNSHUT of the other end, or when its timer says so.
Drop ==
    /\ cma' = [cma EXCEPT !.conn = "NONE"] /\ out' = <<>>
    /\ UNCHANGED <<nanovars, net, cmem, cfiles, db, failed>>

ConnClosed == Ready /\ cma.conn = "SHUT" /\ Drop /\ UNCHANGED faults

\* Nobody has answered at all; an ACK timeout closes no connection that is up.
AckTimeout ==
    /\ Ready /\ cma.conn = "INIT"
    /\ IF nano.phase = "down" THEN UNCHANGED faults ELSE Fault
    /\ Drop

CloseConn ==
    /\ cma' = [cma EXCEPT !.conn = "SHUT"]
    /\ UNCHANGED <<nanovars, net, cmem, cfiles, db, failed, out>>

\* death_report: another nanoprobe has said that this one is dead, rightly or not.
DeathReport ==
    /\ Ready /\ ConnActive
    /\ IF nano.phase = "down" THEN UNCHANGED faults ELSE Fault
    /\ CloseConn

\* A nanoprobe that takes its leave sends a CONNSHUT itself.
ConnShut ==
    /\ Ready /\ ConnActive /\ nano.stopping
    /\ CloseConn /\ UNCHANGED faults

\* What a nanoprobe reports on its own account opens the connection too.
NanoTraffic ==
    /\ Ready /\ cma.conn = "NONE"
    /\ Listening /\ nano.configured /\ ~nano.stopping
    /\ mem.signing \in cmem.public
    /\ cma' = [cma EXCEPT !.conn = "UP"]
    /\ UNCHANGED <<nanovars, net, cmem, cfiles, db, failed, out, faults>>

CmaCrash ==
    /\ cma.up /\ Fault
    /\ cma' = [up |-> FALSE, conn |-> "NONE", txn |-> NoTxn,
               joined |-> db.joined, ghost |-> FALSE]
    /\ cmem' = NoKeys /\ out' = <<>>
    /\ IF cma.txn.step = "save"
         THEN \E file \in File : cfiles' = [cfiles EXCEPT ![cma.txn.key]["public"] = file]
         ELSE UNCHANGED cfiles
    /\ UNCHANGED <<nanovars, net, db, failed>>

\* initkeys: every key that is in a file.  The spare key pair of the CMA is left out.
CmaStart ==
    /\ ~cma.up
    /\ cma' = [cma EXCEPT !.up = TRUE]
    /\ cmem' = CmaKeys(cfiles)
    /\ UNCHANGED <<nanovars, net, cfiles, db, failed, out, faults>>

-----------------------------------------------------------------------------

Lose(m) ==
    /\ m \in net /\ net' = net \ {m}
    /\ UNCHANGED <<nanovars, cmavars, out, faults>>

Next ==
    \/ InstallCmaKey \/ Start \/ SavePublic \/ SavePrivate \/ SaveFails
    \/ StartDiscovery \/ StartAsking \/ AskAgain
    \/ GotFrameset
    \/ CheckForSignals \/ ShutdownWhenOutdone \/ NanoCrash
    \/ \E m \in net : \/ \E again \in BOOLEAN : DispatchStartup(m, again)
                      \/ Lose(m)
    \/ SaveNanoKey \/ SaveNanoKeyFails \/ SendConfig \/ JoinFails
    \/ CommitDb \/ CommitFails \/ SendAck \/ Forget
    \/ ConnClosed \/ AckTimeout \/ DeathReport \/ ConnShut \/ NanoTraffic
    \/ CmaCrash \/ CmaStart

\* Idle functions and timers run, netconfig ends, an init system starts the CMA
\* again, what the CMA does runs to its end, a shutdown is timed, what the CMA has
\* sent is sent again until it arrives, and a STARTUP that is sent every five seconds arrives some time.
Fairness ==
    /\ WF_vars(StartDiscovery \/ StartAsking \/ AskAgain)
    /\ WF_vars(GotFrameset) /\ WF_vars(ConnClosed)
    /\ WF_vars(SaveNanoKey \/ SendConfig \/ CommitDb \/ SendAck \/ CmaStart)
    /\ SF_vars(\E m \in net, again \in BOOLEAN : DispatchStartup(m, again))

Spec == Init /\ [][Next]_vars

FairSpec == Spec /\ Fairness

-----------------------------------------------------------------------------
(* Properties                                                              *)

\* Whatever was being written when a process died: the key the CMA's database
\* holds for the drone is in a file at both ends, in both halves at the nanoprobe,
\* and it is the only one the nanoprobe will find to sign with when it starts
\* again.  With another one the CMA would refuse it (cma/dispatchtarget.py:201).
AcceptedKeyIsWhole ==
    db.key # NoKey =>
        /\ \A h \in Half : files[db.key][h] = "whole"
        /\ cfiles[db.key]["public"] = "whole"
        /\ \A k \in KeyId \ {db.key} : files[k]["private"] # "whole"

\* A nanoprobe that will ask no more is in the database: "receiving this packet
\* means the CMA has completed the work associated with our STARTUP"
\* (clientlib/nanoprobe.c:716).
StopsWhenRegistered == nano.complete => db.joined = nano.id

\* The two ways in which that is not so: the ACKSTARTUP was for the process before,
\* or the commit failed and the next STARTUP was a duplicate.
ToldInError == nano.complete /\ (misled \/ failed = nano.id)

Registry == INSTANCE Registration WITH
    process <- nano.id, registered <- db.joined, told <- nano.complete /\ ~ToldInError

\* Startup implements Registration: a nanoprobe process is recorded in the database,
\* never to be replaced by an earlier one, and told so by ACKSTARTUP afterwards only;
\* a process that is told in error counts as one that is not told.
ImplementsRegistration == Registry!Spec

Running == Listening /\ nano.enabled /\ ~nano.stopping

\* What a commit that failed has left in the CMA's memory
Astray == Ready /\ (cma.ghost \/ cma.joined # db.joined)

\* Whatever crashes and whatever fails on the way, a nanoprobe that stays up and has
\* its keys is in the database at last, or was told so in error, once the CMA has
\* forgotten what it could not commit: "if the CMA crashed in the middle of configuring
\* us, it wouldn't finish the job" otherwise (clientlib/nanoprobe.c:721).  (That it is
\* told so as well is not true: no ACKSTARTUP is sent when the connection was open
\* already, cma/dispatchtarget.py:152.)
RegisteredAtLast ==
    <>[](Running /\ ~Astray) => <>[](db.joined = nano.id \/ ToldInError)

=============================================================================
