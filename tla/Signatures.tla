-------------------------------- MODULE Signatures --------------------------------
(***************************************************************************)
(* Signed drafts: signature/signature.service.ts.  Two stored documents,   *)
(* the signatures and the key pairs, written together by every operation   *)
(* that changes either; the operation answers when both puts have landed,  *)
(* and fails when one of them fails, though memory keeps the change and    *)
(* the other put may land.                                                 *)
(*                                                                         *)
(* A key is the number of the pair it belongs to.  sign() signs with the   *)
(* private key its caller sends and records the public key on file: the    *)
(* two belong together only if the caller's key is the one on file.        *)
(* Nothing reads a key pair's expiry or its revoked flag, and nothing sets *)
(* the flag.  Hashes and the cryptography are a comparison.                *)
(***************************************************************************)
EXTENDS LazyStore

CONSTANTS Signers,
          InOrderDriver,    \* whether the driver lands puts in order
          MaxKeys,          \* bound: key pairs
          MaxSignatures,    \* bound: signatures
          MaxSignatureFaults\* bound: puts that fail and crashes

ASSUME SignatureAssumption ==
    /\ {MaxKeys, MaxSignatures, MaxSignatureFaults} \subseteq Nat
    /\ InOrderDriver \in BOOLEAN

VARIABLES sigs,             \* the signatures, a store
          pairs,            \* the public key on file of each signer, a store
          signing           \* ghosts and bounds

signatureVars == <<sigs, pairs, signing>>

NoPairs == [s \in Signers |-> 0]

SignaturesInit ==
    /\ sigs = NewStore(<<>>)
    /\ pairs = NewStore(NoPairs)
    /\ signing = [keys |-> 0, made |-> 0, faults |-> 0, good |-> {}]

\* ensureLoaded() reads both documents, once a boot.
Ready ==
    sigs.loaded

FirstUse ==
    /\ ~Ready
    /\ sigs' = Load(sigs)
    /\ pairs' = Load(pairs)
    /\ UNCHANGED signing

\* persist(), in answer to the request that reports fact.
Both(newSigs, newPairs, fact) ==
    /\ sigs' = Save(sigs, newSigs, fact)
    /\ pairs' = Save(pairs, newPairs, fact)

\* generateKeyPair(): the new pair replaces the signer's old one.
GenerateKeyPair(s) ==
    LET key == signing.keys + 1 IN
    /\ Ready
    /\ key <= MaxKeys
    /\ signing' = [signing EXCEPT !.keys = key]
    /\ Both(sigs.mem, [pairs.mem EXCEPT ![s] = key], <<"pair", key>>)

\* sign(), with the private key of any pair there has been: the record is good
\* on the face of it.
Sign(s, privateKey) ==
    LET id == signing.made + 1 IN
    /\ Ready
    /\ id <= MaxSignatures
    /\ pairs.mem[s] # 0
    /\ signing' = [signing EXCEPT !.made = id,
                                 !.good = IF privateKey = pairs.mem[s] THEN @ \cup {id} ELSE @]
    /\ Both(Append(sigs.mem, [id |-> id, signer |-> s, by |-> privateKey,
                              publicKey |-> pairs.mem[s], revoked |-> FALSE]),
            pairs.mem, <<"signed", id>>)

\* revoke().
Revoke(i) ==
    /\ Ready
    /\ i \in DOMAIN sigs.mem
    /\ ~sigs.mem[i].revoked
    /\ Both([sigs.mem EXCEPT ![i].revoked = TRUE], pairs.mem, <<"revoked", sigs.mem[i].id>>)
    /\ UNCHANGED signing

\* verify(), of the unchanged document: against the key in the record.
Verifies(record) ==
    ~record.revoked /\ record.by = record.publicKey

SignaturePutLands ==
    /\ \/ sigs' \in Landings(sigs, InOrderDriver) /\ UNCHANGED pairs
       \/ pairs' \in Landings(pairs, InOrderDriver) /\ UNCHANGED sigs
    /\ UNCHANGED signing

SignaturePutFails ==
    /\ signing.faults < MaxSignatureFaults
    /\ signing' = [signing EXCEPT !.faults = @ + 1]
    /\ \/ sigs' \in Refusals(sigs, InOrderDriver) /\ UNCHANGED pairs
       \/ pairs' \in Refusals(pairs, InOrderDriver) /\ UNCHANGED sigs

\* The process ends; what the store held and who was told what stays.
SignatureCrash ==
    /\ signing.faults < MaxSignatureFaults
    /\ signing' = [signing EXCEPT !.faults = @ + 1]
    /\ sigs' = Crash(sigs, <<>>)
    /\ pairs' = Crash(pairs, NoPairs)

SignaturesNext ==
    \/ FirstUse
    \/ \E s \in Signers :
           \/ GenerateKeyPair(s)
           \/ \E key \in 1..MaxKeys : key <= signing.keys /\ Sign(s, key)
    \/ \E i \in 1..MaxSignatures : Revoke(i)
    \/ SignaturePutLands \/ SignaturePutFails
    \/ SignatureCrash

SignaturesSpec == SignaturesInit /\ [][SignaturesNext]_signatureVars

-----------------------------------------------------------------------------

\* A request was answered: both of its puts landed.
Reported(what, id) ==
    <<what, id>> \in sigs.acked \cap pairs.acked

\* A signature its signer was told of is on record, through restarts and puts
\* that fail; made with the key then on file it verifies, whatever pairs are
\* generated later, until it is revoked; made with another it never does; and
\* one that was answered as revoked never verifies again.
SignaturesStick ==
    /\ \A i \in DOMAIN sigs.mem :
           LET record == sigs.mem[i] IN
           Verifies(record) <=> ~record.revoked /\ record.id \in signing.good
    /\ Ready => \A id \in 1..MaxSignatures :
           /\ Reported("signed", id) => \E i \in DOMAIN sigs.mem : sigs.mem[i].id = id
           /\ Reported("revoked", id) => \A i \in DOMAIN sigs.mem :
                  sigs.mem[i].id = id => ~Verifies(sigs.mem[i])
=================================================================================
