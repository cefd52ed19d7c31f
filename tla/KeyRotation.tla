----------------------------- MODULE KeyRotation -----------------------------
(* Secrets in Vault: what a process fetches when it starts and refreshes by    *)
(* hand (src/services/secretsBootstrap.ts), and the scheduler of every process *)
(* that replaces each secret of the path when its rotation is due              *)
(* (src/services/keyRotation.ts, keyRotationScheduler.ts).  A rotation writes  *)
(* the secret, reads its metadata and writes that; Vault, behind a circuit     *)
(* breaker, may refuse each of these calls (src/services/vaultClient.ts).      *)
EXTENDS Integers, Sequences, FiniteSets, SequencesExt

CONSTANTS
  VaultOrder,        \* the secrets of the path, as Vault lists them
  KeyReplicas,       \* processes
  MaxKeysPerBatch,   \* config.maxKeysPerBatch
  MaxRotations,      \* bound on values of a secret
  MaxPeriods,        \* bound on rotation periods that pass
  MaxVaultFaults,    \* bound on refused calls and crashes
  FromEnvFile        \* the value in the environment file

VARIABLES
  vaultKey,          \* how often a secret's value has been replaced
  vaultMeta,         \* its metadata: rotation_version, and rotated this period
  rotator,           \* a scheduler's step, the keys to go and the version it read
  keyEnv,            \* process.env
  keyFetched,        \* fetchedSecrets
  keyDisturbed,      \* history: keys of a refused call or of two rotations at once
  keyPeriods,        \* periods passed
  keyFaults

keyVars == <<vaultKey, vaultMeta, rotator, keyEnv, keyFetched, keyDisturbed,
             keyPeriods, keyFaults>>
keysOfProcess == <<keyEnv, keyFetched>>

VaultKeys == ToSet(VaultOrder)
ASSUME RotationAssumption ==
  /\ IsFiniteSet(KeyReplicas) /\ VaultOrder \in Seq(VaultKeys)
  /\ MaxKeysPerBatch \in Nat \ {0} /\ MaxRotations \in Nat
  /\ MaxPeriods \in Nat /\ MaxVaultFaults \in Nat

RotatorOff == [pc |-> "off"]
RotatorIdle == [pc |-> "idle"]
RotatorSteps == {"check", "write", "read", "meta"}
KeyValues == 0..MaxRotations \cup {FromEnvFile}

KeyTypeOK ==
  /\ vaultKey \in [VaultKeys -> 0..MaxRotations]
  /\ vaultMeta \in [VaultKeys -> [version : 0..MaxRotations, fresh : BOOLEAN]]
  /\ rotator \in [KeyReplicas ->
       [pc : RotatorSteps, todo : Seq(VaultKeys), due : Seq(VaultKeys), seen : 0..MaxRotations]
       \cup {RotatorOff, RotatorIdle}]
  /\ keyEnv \in [KeyReplicas -> [VaultKeys -> KeyValues]]
  /\ keyFetched \in [KeyReplicas -> [VaultKeys -> KeyValues]]
  /\ keyDisturbed \subseteq VaultKeys
  /\ keyPeriods \in 0..MaxPeriods /\ keyFaults \in 0..MaxVaultFaults

KeyInit ==
  /\ vaultKey = [k \in VaultKeys |-> 0]
  /\ vaultMeta = [k \in VaultKeys |-> [version |-> 0, fresh |-> FALSE]]
  /\ rotator = [p \in KeyReplicas |-> RotatorOff]
  /\ keyEnv = [p \in KeyReplicas |-> [k \in VaultKeys |-> FromEnvFile]]
  /\ keyFetched = keyEnv
  /\ keyDisturbed = {} /\ keyPeriods = 0 /\ keyFaults = 0

KeyFault == keyFaults < MaxVaultFaults /\ keyFaults' = keyFaults + 1

\* A replica is between the first and the last call of a key's rotation.
Rotating(k) == {p \in KeyReplicas :
  rotator[p].pc \in {"write", "read", "meta"} /\ Head(rotator[p].due) = k}

-----------------------------------------------------------------------------
(* A process and its secrets. *)

\* bootstrapSecrets, by a healthy Vault with a valid token: every secret is
\* fetched and put into the environment, and the scheduler starts.
BootFromVault(p) ==
  /\ rotator[p].pc = "off"
  /\ keyFetched' = [keyFetched EXCEPT ![p] = vaultKey]
  /\ keyEnv' = [keyEnv EXCEPT ![p] = vaultKey]
  /\ rotator' = [rotator EXCEPT ![p] = RotatorIdle]
  /\ UNCHANGED <<vaultKey, vaultMeta, keyDisturbed, keyPeriods, keyFaults>>

\* POST /secrets/refresh: into fetchedSecrets only; what Vault refuses comes
\* from the environment, which is what Vault held when the process started.
RefreshSecrets(p) ==
  /\ rotator[p].pc # "off"
  /\ \/ keyFetched' = [keyFetched EXCEPT ![p] = vaultKey] /\ UNCHANGED keyFaults
     \/ /\ KeyFault
        /\ \E k \in VaultKeys :
             keyFetched' = [keyFetched EXCEPT ![p] = [vaultKey EXCEPT ![k] = keyEnv[p][k]]]
  /\ UNCHANGED <<vaultKey, vaultMeta, rotator, keyEnv, keyDisturbed, keyPeriods>>

\* A process dies.
KeyCrash(p) ==
  /\ rotator[p].pc # "off" /\ KeyFault
  /\ rotator' = [rotator EXCEPT ![p] = RotatorOff]
  /\ keyEnv' = [keyEnv EXCEPT ![p] = [k \in VaultKeys |-> FromEnvFile]]
  /\ keyFetched' = [keyFetched EXCEPT ![p] = [k \in VaultKeys |-> FromEnvFile]]
  /\ keyDisturbed' = keyDisturbed \cup {k \in VaultKeys : p \in Rotating(k)}
  /\ UNCHANGED <<vaultKey, vaultMeta, keyPeriods>>

\* The rotation period of every key ends.
PeriodPasses ==
  /\ keyPeriods < MaxPeriods /\ keyPeriods' = keyPeriods + 1
  /\ vaultMeta' = [k \in VaultKeys |-> [version |-> vaultMeta[k].version, fresh |-> FALSE]]
  /\ UNCHANGED <<vaultKey, rotator, keysOfProcess, keyDisturbed, keyFaults>>

-----------------------------------------------------------------------------
(* checkAndRotate, once when the scheduler starts and then every day. *)

\* listSecrets; an empty answer, or an error, ends the check, and one that would
\* find nothing due changes nothing.
RotatorLists(p) ==
  /\ rotator[p].pc = "idle"
  /\ \E k \in VaultKeys : ~vaultMeta[k].fresh
  /\ rotator' = [rotator EXCEPT ![p] =
       [pc |-> "check", todo |-> VaultOrder, due |-> <<>>, seen |-> 0]]
  /\ UNCHANGED <<vaultKey, vaultMeta, keysOfProcess, keyDisturbed, keyPeriods, keyFaults>>

\* A check that goes on with the next key, and one that has its batch.
Checking(check, due) == [check EXCEPT !.todo = Tail(@), !.due = due]
BatchOf(check, due) ==
  [check EXCEPT !.pc = "write", !.todo = <<>>,
     !.due = SubSeq(due, 1, IF Len(due) < MaxKeysPerBatch THEN Len(due) ELSE MaxKeysPerBatch)]

\* The keys found due, of which a batch is rotated.
Checked(p, due) ==
  rotator' = [rotator EXCEPT ![p] =
    IF Tail(@.todo) # <<>> THEN Checking(@, due)
    ELSE IF due = <<>> THEN RotatorIdle ELSE BatchOf(@, due)]

\* needsRotation, which takes a key whose metadata cannot be read for due.
RotatorChecks(p) ==
  LET k == Head(rotator[p].todo) IN
  /\ rotator[p].pc = "check"
  /\ \/ /\ Checked(p, IF vaultMeta[k].fresh THEN rotator[p].due
                      ELSE Append(rotator[p].due, k))
        /\ UNCHANGED keyFaults
     \/ KeyFault /\ Checked(p, Append(rotator[p].due, k))
  /\ UNCHANGED <<vaultKey, vaultMeta, keysOfProcess, keyDisturbed, keyPeriods>>

\* rotateKey: the new value.
RotatorWrites(p) ==
  LET k == Head(rotator[p].due) IN
  /\ rotator[p].pc = "write" /\ vaultKey[k] < MaxRotations
  /\ vaultKey' = [vaultKey EXCEPT ![k] = @ + 1]
  /\ rotator' = [rotator EXCEPT ![p].pc = "read"]
  /\ keyDisturbed' = IF Cardinality(Rotating(k)) > 1 THEN keyDisturbed \cup {k} ELSE keyDisturbed
  /\ UNCHANGED <<vaultMeta, keysOfProcess, keyPeriods, keyFaults>>

\* A rotation that has taken n for the version so far.
VersionRead(rotation, n) == [rotation EXCEPT !.pc = "meta", !.seen = n]

\* Mutation of RotatorReads: the version is always taken for missing.
RotatorReadsNone(p) ==
  /\ rotator[p].pc = "read"
  /\ rotator' = [rotator EXCEPT ![p] = VersionRead(@, 0)]
  /\ UNCHANGED <<vaultKey, vaultMeta, keysOfProcess, keyDisturbed, keyPeriods, keyFaults>>

\* getRotationStatus, which takes metadata it cannot read for version 0.
RotatorReads(p) ==
  LET k == Head(rotator[p].due) IN
  /\ rotator[p].pc = "read"
  /\ \/ /\ rotator' = [rotator EXCEPT ![p] = VersionRead(@, vaultMeta[k].version)]
        /\ UNCHANGED <<keyDisturbed, keyFaults>>
     \/ /\ KeyFault /\ keyDisturbed' = keyDisturbed \cup {k}
        /\ rotator' = [rotator EXCEPT ![p] = VersionRead(@, 0)]
  /\ UNCHANGED <<vaultKey, vaultMeta, keysOfProcess, keyPeriods>>

\* On to the next key of the batch.
KeyPassed(rotation) == [rotation EXCEPT !.pc = "write", !.due = Tail(@)]
NextKey(p) ==
  rotator' = [rotator EXCEPT ![p] =
    IF Tail(@.due) = <<>> THEN RotatorIdle ELSE KeyPassed(@)]

\* Mutation of RotatorRecords: the date of the rotation is missing.
RotatorRecordsUndated(p) ==
  LET k == Head(rotator[p].due) IN
  /\ rotator[p].pc = "meta" /\ rotator[p].seen < MaxRotations
  /\ vaultMeta' = [vaultMeta EXCEPT ![k].version = rotator[p].seen + 1]
  /\ NextKey(p)
  /\ UNCHANGED <<vaultKey, keysOfProcess, keyDisturbed, keyPeriods, keyFaults>>

\* The metadata: the version that was read, plus one.
RotatorRecords(p) ==
  LET k == Head(rotator[p].due) IN
  /\ rotator[p].pc = "meta" /\ rotator[p].seen < MaxRotations
  /\ vaultMeta' = [vaultMeta EXCEPT ![k] = [version |-> rotator[p].seen + 1, fresh |-> TRUE]]
  /\ NextKey(p)
  /\ UNCHANGED <<vaultKey, keysOfProcess, keyDisturbed, keyPeriods, keyFaults>>

\* A write is refused: rotateKey returns false, and the next key follows.
RotationFails(p) ==
  LET k == Head(rotator[p].due) IN
  /\ rotator[p].pc \in {"write", "meta"} /\ KeyFault
  /\ keyDisturbed' = keyDisturbed \cup {k}
  /\ NextKey(p)
  /\ UNCHANGED <<vaultKey, vaultMeta, keysOfProcess, keyPeriods>>

RotatorStep(p) ==
  RotatorLists(p) \/ RotatorChecks(p) \/ RotatorWrites(p) \/ RotatorReads(p) \/ RotatorRecords(p)

KeyNext ==
  \/ PeriodPasses
  \/ \E p \in KeyReplicas : \/ RotatorStep(p) \/ RotationFails(p)
                            \/ BootFromVault(p) \/ RefreshSecrets(p) \/ KeyCrash(p)

KeyFairness == \A p \in KeyReplicas : WF_keyVars(RotatorStep(p)) /\ WF_keyVars(BootFromVault(p))
KeySpec == KeyInit /\ [][KeyNext]_keyVars /\ KeyFairness

-----------------------------------------------------------------------------
\* The metadata counts the values a secret has had, as long as no call of its
\* rotations was refused and no two processes rotated it at once: a value is
\* never replaced without a record, nor recorded without being replaced
\* (keyRotation.ts:38-71).
RotationsCounted ==
  \A k \in VaultKeys \ keyDisturbed :
    Rotating(k) = {} => vaultKey[k] = vaultMeta[k].version

\* A secret that is due is rotated in the end, whatever one day's check fails
\* at (keyRotationScheduler.ts:72-109).
KeyRotated == \A k \in VaultKeys : ~vaultMeta[k].fresh ~> vaultMeta[k].fresh
=============================================================================
