------------------------------ MODULE KeyStore ------------------------------
(***************************************************************************)
(* The key pair (utils/CryptoUtils).  The constructor loads the two files, *)
(* the public one first, or makes a new pair; the destructor writes both,  *)
(* the private one first.  Opening a file for writing empties it, so that  *)
(* the program can die, or the disk fail, with one file old, new or torn   *)
(* and the other different.  A device learns the public key when its user  *)
(* accepts it, and then knows what the private key signed.                 *)
(*                                                                         *)
(* signAdbTokenPayload hands 32 bytes to EVP_PKEY_sign of which SHA1 wrote *)
(* 20.  A signature is known here by the key that made it, and the device  *)
(* may refuse any.                                                         *)
(***************************************************************************)
EXTENDS Integers

CONSTANTS MaxKeys,    \* bound: pairs that are generated
          MaxFaults   \* bound: crashes, and failures of files and of OpenSSL

ASSUME KeyBoundsAssumption == MaxKeys \in Nat /\ MaxFaults \in Nat

VARIABLES
  phase,       \* where the program is: "down", in the constructor, "up", in the destructor
  key,         \* key["private"], key["public"]: private_key_ and public_key_
  file,        \* what the two files hold
  made,        \* pairs generated so far
  signature,   \* the key of the last signature this run sent
  trusted,     \* the public keys the device has accepted
  faults,      \* faults so far
  promise      \* the pair of this run, if nothing failed since it has one

keyVars == <<phase, key, file, made, signature, trusted, faults, promise>>

(* Pairs are numbered from 1.  A pointer may be null, or EVP_PKEY_new's    *)
(* key without a value; a file may not be there, or hold no key.           *)
Blank == 0
Null == -1
Missing == 0
Torn == -1
IsKey(k) == k > 0
Pair(k) == [private |-> k, public |-> k]

Halves == {"private", "public"}
Loading == {"loadPublic", "loadPrivate", "generate"}
Saving == {"savePrivate", "writePrivate", "savePublic", "writePublic"}

KeyInit ==
  /\ phase = "down" /\ key = Pair(Blank) /\ file = Pair(Missing)
  /\ made = 0 /\ signature = Null /\ trusted = {} /\ faults = 0 /\ promise = 0

Fault == faults < MaxFaults /\ faults' = faults + 1 /\ promise' = 0

-----------------------------------------------------------------------------
\* The constructor

\* getInstance, in the first handshake.
Construct ==
  /\ phase = "down" /\ phase' = "loadPublic"
  /\ key' = Pair(Blank) /\ signature' = Null
  /\ UNCHANGED <<file, made, trusted, faults, promise>>

\* What-if: a file that can be read counts as a key.
LoadTorn(half, next) ==
  /\ \/ /\ file[half] # Missing /\ phase' = next
        /\ UNCHANGED <<faults, promise>>
        /\ key' = [key EXCEPT ![half] = IF IsKey(file[half]) THEN file[half] ELSE Null]
     \/ /\ file[half] = Missing /\ phase' = "generate"
        /\ UNCHANGED <<key, faults, promise>>
  /\ UNCHANGED <<file, made, signature, trusted>>

(* Neither BIO_new_file nor PEM_read reported an error, a file without a   *)
(* key, or one that cannot be opened: the pointer is left alone then.      *)
Load(half, next) ==
  /\ \/ /\ IsKey(file[half]) /\ phase' = next
        /\ key' = [key EXCEPT ![half] = file[half]]
        /\ UNCHANGED <<faults, promise>>
     \/ /\ file[half] = Torn /\ phase' = "generate"
        /\ key' = [key EXCEPT ![half] = Null]
        /\ UNCHANGED <<faults, promise>>
     \/ /\ file[half] = Missing /\ phase' = "generate"
        /\ UNCHANGED <<key, faults, promise>>
     \/ /\ file[half] # Missing /\ phase' = "generate"
        /\ Fault /\ UNCHANGED key
  /\ UNCHANGED <<file, made, signature, trusted>>

LoadPublicKey == phase = "loadPublic" /\ Load("public", "loadPrivate")
LoadPrivateKey == phase = "loadPrivate" /\ Load("private", "up")

\* What-if: a public key that was loaded is kept.
CopyIfNone(k) == IF IsKey(key["public"]) THEN key["public"] ELSE k

\* EVP_PKEY_dup
Copy(k) == k

(* keygen may fail, with private_key_ as it was or null, and so may dup.   *)
GenerateRsaKeys ==
  /\ phase = "generate" /\ phase' = "up"
  /\ \/ /\ made < MaxKeys /\ made' = made + 1
        /\ key' = [private |-> made + 1, public |-> Copy(made + 1)]
        /\ promise' = made + 1 /\ UNCHANGED faults
     \/ /\ made < MaxKeys /\ made' = made + 1
        /\ key' = [private |-> made + 1, public |-> Null]
        /\ Fault
     \/ /\ \E k \in {key["private"], Null} : key' = [key EXCEPT !["private"] = k]
        /\ Fault /\ UNCHANGED made
  /\ UNCHANGED <<file, signature, trusted>>

-----------------------------------------------------------------------------
\* Handshakes

\* A pool thread may still be in a handshake while the destructor runs.
InUse == phase = "up" \/ phase \in Saving

\* signAdbTokenPayload: without a usable key the signature is empty.
Sign ==
  /\ InUse
  /\ signature' = key["private"]
  /\ UNCHANGED <<phase, key, file, made, trusted, faults, promise>>

(* The device refused the signature: it gets getPublicKeyBytes(), and its  *)
(* user accepts the key, if there is one.                                  *)
Offer ==
  /\ InUse
  /\ trusted' = trusted \cup {k \in {key["public"]} : IsKey(k)}
  /\ UNCHANGED <<phase, key, file, made, signature, faults, promise>>

-----------------------------------------------------------------------------
\* The destructor

\* What-if: only the public key is saved.
ExitPublicOnly ==
  /\ phase = "up" /\ phase' = "savePublic"
  /\ UNCHANGED <<key, file, made, signature, trusted, faults, promise>>

Exit ==
  /\ phase = "up" /\ phase' = "savePrivate"
  /\ UNCHANGED <<key, file, made, signature, trusted, faults, promise>>

\* BIO_new_file for writing: a null pointer is not saved, and opening may fail.
Open(half, write, next) ==
  /\ \/ /\ key[half] # Null /\ phase' = write
        /\ file' = [file EXCEPT ![half] = Torn]
        /\ UNCHANGED <<key, faults, promise>>
     \/ key[half] = Null /\ phase' = next /\ UNCHANGED <<key, file, faults, promise>>
     \/ /\ key[half] # Null /\ phase' = next /\ Fault
        /\ key' = [key EXCEPT ![half] = Null] /\ UNCHANGED file
  /\ UNCHANGED <<made, signature, trusted>>

\* PEM_write fails for a key without a value, and when the disk does; then free.
Write(half, next) ==
  /\ phase' = next
  /\ key' = [key EXCEPT ![half] = Null]
  /\ \/ /\ IsKey(key[half]) /\ file' = [file EXCEPT ![half] = key[half]]
        /\ UNCHANGED <<faults, promise>>
     \/ ~IsKey(key[half]) /\ UNCHANGED <<file, faults, promise>>
     \/ IsKey(key[half]) /\ Fault /\ UNCHANGED file
  /\ UNCHANGED <<made, signature, trusted>>

SavePrivateKey == \/ phase = "savePrivate" /\ Open("private", "writePrivate", "savePublic")
                  \/ phase = "writePrivate" /\ Write("private", "savePublic")
SavePublicKey == \/ phase = "savePublic" /\ Open("public", "writePublic", "down")
                 \/ phase = "writePublic" /\ Write("public", "down")

\* The program is killed or dies: no destructor runs.
Crash ==
  /\ phase # "down" /\ phase' = "down"
  /\ Fault
  /\ UNCHANGED <<key, file, made, signature, trusted>>

-----------------------------------------------------------------------------

Program == Construct \/ LoadPublicKey \/ LoadPrivateKey \/ GenerateRsaKeys
             \/ Exit \/ SavePrivateKey \/ SavePublicKey

KeyNext == Program \/ Sign \/ Offer \/ Crash

(* The program is started and closed again and again, and in between the   *)
(* device is connected to and its user asked in the end.                   *)
KeySpec == /\ KeyInit /\ [][KeyNext]_keyVars
           /\ WF_keyVars(Program) /\ SF_keyVars(Sign /\ phase = "up") /\ SF_keyVars(Offer /\ phase = "up")

-----------------------------------------------------------------------------
\* Properties

KeyTypeOK ==
  /\ phase \in {"down", "up"} \cup Loading \cup Saving
  /\ key \in [Halves -> Null .. MaxKeys] /\ file \in [Halves -> Torn .. MaxKeys]
  /\ made \in 0 .. MaxKeys /\ signature \in Null .. MaxKeys /\ trusted \subseteq 1 .. made
  /\ faults \in 0 .. MaxFaults /\ promise \in 0 .. made
  /\ \A half \in Halves : key[half] <= made /\ file[half] <= made

(* The device is never offered another key than the one that signed, after *)
(* a crash or a failure at any single step of loading and saving.  After   *)
(* two it can be: the files then hold halves of different pairs, for good. *)
PairMatches ==
  faults <= 1 /\ InUse /\ IsKey(signature) /\ IsKey(key["public"]) =>
    signature = key["public"]

(* The pair stays the same from run to run as long as nothing fails: a     *)
(* run uses the pair it was promised and leaves it in the files.           *)
IdentityKept ==
  promise > 0 => /\ phase = "up" => key = Pair(promise)
                 /\ phase = "down" => file = Pair(promise)

(* With one fault at most there is always a later moment when the device   *)
(* knows the key the program signs with.                                   *)
DeviceLearns ==
  [](faults <= 1) => []<>(phase = "up" /\ key["private"] \in trusted)
=============================================================================
