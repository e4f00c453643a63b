-------------------------------- MODULE Keys --------------------------------
(***************************************************************************)
(* Key pairs in files and in memory (clientlib/cryptcurve25519.c and       *)
(* cryptframe.c).  A key pair has a name, its key id, which comes from a   *)
(* checksum of the public key: a key is known by its id here.  A process   *)
(* that dies while it writes a key leaves a file of the wrong length.      *)
(*                                                                         *)
(* Files are only read when a key is not in memory; a file that has the    *)
(* right length and cannot be read is not modelled.                        *)
(***************************************************************************)

CONSTANTS
    KeyId,    \* key ids
    NoKey,    \* no key id: NULL
    Identity, \* whose keys there are
    NoOne,    \* no identity: NULL
    Addr      \* addresses that are sent to

ASSUME KeysAssumption == NoKey \notin KeyId /\ NoOne \notin Identity

Half == {"public", "private"}
File == {"absent", "torn", "whole"}

KeyFiles  == [KeyId -> [Half -> File]]
KeyMemory == [public   : SUBSET KeyId,
              private  : SUBSET KeyId,
              identity : [KeyId -> Identity \cup {NoOne}],
              signing  : KeyId \cup {NoKey},
              dest     : [Addr -> KeyId \cup {NoKey}]]

\* cryptframe_shutdown, and a process that has just begun
NoKeys == [public |-> {}, private |-> {}, identity |-> [k \in KeyId |-> NoOne],
           signing |-> NoKey, dest |-> [a \in Addr |-> NoKey]]

-----------------------------------------------------------------------------
(* Memory                                                                  *)

PublicKeyNew(mem, k)  == [mem EXCEPT !.public = @ \cup {k}]
PrivateKeyNew(mem, k) == [mem EXCEPT !.private = @ \cup {k}]

\* The first identity of a key is its only one, and a key that is not here has none.
AssociateIdentity(mem, who, k) ==
    IF k \in mem.public /\ mem.identity[k] = NoOne
      THEN [mem EXCEPT !.identity[k] = who] ELSE mem

\* cryptframe_purge_key_id.  Messages are signed with a purged key as before.
PurgeKeyId(mem, k) ==
    [mem EXCEPT !.identity[k] = NoOne, !.public = @ \ {k}, !.private = @ \ {k}]

\* Mutant: it is enough to have the public half of a key.
SetSigningAnyKeyId(mem, k) == IF k \in mem.public THEN [mem EXCEPT !.signing = k] ELSE mem

SetSigningKeyId(mem, k) == IF k \in mem.private THEN [mem EXCEPT !.signing = k] ELSE mem

SetDestKeyId(mem, addr, k) ==
    IF k \in mem.public THEN [mem EXCEPT !.dest[addr] = k] ELSE mem

\* cryptframe_new_by_destaddr: is what goes there encrypted?
SealedFor(mem, addr) == mem.signing # NoKey /\ mem.dest[addr] # NoKey

-----------------------------------------------------------------------------
(* Files                                                                   *)

\* A public key counts without a private one that is torn, missing or another user's.
CacheKeypair(files, mem, k) ==
    IF k \in mem.public \/ files[k]["public"] # "whole" THEN mem
    ELSE IF files[k]["private"] = "whole" THEN PrivateKeyNew(PublicKeyNew(mem, k), k)
    ELSE PublicKeyNew(mem, k)

\* Every file that is named like a public key; one does not depend on another.
CacheAllKeypairs(files, mem) ==
    LET Found == {k \in KeyId : k \in CacheKeypair(files, mem, k).public}
    IN  [mem EXCEPT !.public = Found,
                    !.private = {k \in Found : k \in CacheKeypair(files, mem, k).private}]

\* _cryptcurve25519_save_a_key, when it succeeds: what was in the file is overwritten.
SaveAKey(files, k, half) == [files EXCEPT ![k][half] = "whole"]

\* cryptcurve25519_purge_keypair: the files
PurgeFiles(files, k) == [files EXCEPT ![k] = [h \in Half |-> "absent"]]

=============================================================================
