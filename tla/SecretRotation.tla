--------------------------- MODULE SecretRotation ---------------------------
(****************************************************************************)
(* SecretsManager (security/secrets.py): several instances encrypt and      *)
(* decrypt the secrets in the rows of api_keys with their keys, and each    *)
(* may go over to a new key.  A rotation is one transaction: it reads all   *)
(* rows, writes those that it can decrypt, commits and only then replaces   *)
(* the key of the instance.  A row that is written is locked until then.    *)
(*                                                                          *)
(* Rows hold what encrypt_secret made with a key, or, as those that         *)
(* APIKeyManager writes, a hash that no key decrypts.                       *)
(****************************************************************************)
EXTENDS Naturals, FiniteSets

CONSTANTS
    Managers,       \* instances of SecretsManager
    SecretRows,
    CipherKeys,
    FirstKey,       \* settings.encryption_key
    Hash,           \* a row that no key decrypts
    MaxRotations,   \* bound
    MaxSecrets      \* bound: how often rows are written beside the rotations

ASSUME SecretAssumption ==
    /\ FirstKey \in CipherKeys /\ Hash \notin CipherKeys
    /\ MaxRotations \in Nat /\ MaxSecrets \in Nat

VARIABLES
    secret,         \* [SecretRows -> CipherKeys \cup {Hash}]
    fernet,         \* [Managers -> CipherKeys]
    rotating,       \* [Managers -> the transaction, if any]
    rotations, secrets,
    \* history
    readable        \* [Managers -> rows it must be able to decrypt]

secretVars == <<secret, fernet, rotating, rotations, secrets, readable>>

NotRotating == [on |-> FALSE, new |-> FirstKey, todo |-> {}, seen |-> [r \in SecretRows |-> Hash],
                locked |-> {}, aborted |-> FALSE]

SecretsInit ==
    /\ secret \in [SecretRows -> {FirstKey, Hash}]
    /\ fernet = [m \in Managers |-> FirstKey]
    /\ rotating = [m \in Managers |-> NotRotating]
    /\ rotations = 0 /\ secrets = 0
    /\ readable = [m \in Managers |-> {r \in SecretRows : secret[r] = FirstKey}]

Locked(r) == \E m \in Managers : r \in rotating[m].locked

\* After a write by manager m, nobody else need be able to decrypt rows.
ReadableBy(m, rows, own) ==
    [n \in Managers |-> IF n = m THEN own ELSE readable[n] \ rows]

\* encrypt_secret, stored by its caller.  A rotation of the same manager that is
\* under way may replace the key or the row.
StoreSecret(m, r) ==
    /\ secrets < MaxSecrets /\ secrets' = secrets + 1
    /\ ~Locked(r)
    /\ secret' = [secret EXCEPT ![r] = fernet[m]]
    /\ readable' = ReadableBy(m, {r}, IF rotating[m].on THEN readable[m] \ {r}
                                      ELSE readable[m] \cup {r})
    /\ UNCHANGED <<fernet, rotating, rotations>>

(****************************************************************************)
(* rotate_encryption_key                                                    *)
(****************************************************************************)
SelectSecrets(m, new) ==
    /\ ~rotating[m].on /\ rotations < MaxRotations
    /\ rotations' = rotations + 1
    /\ rotating' = [rotating EXCEPT ![m] =
            [on |-> TRUE, new |-> new, todo |-> SecretRows, seen |-> secret,
             locked |-> {}, aborted |-> FALSE]]
    /\ UNCHANGED <<secret, fernet, secrets, readable>>

\* A slip: the instance has its new key already.
Decrypts_New(m, r) == rotating[m].seen[r] = rotating[m].new
\* decrypt_secret of what was selected.
Decrypts(m, r) == rotating[m].seen[r] = fernet[m]

SkipSecret(m, r) ==
    /\ r \in rotating[m].todo /\ ~Decrypts(m, r)
    /\ rotating' = [rotating EXCEPT ![m].todo = @ \ {r}]
    /\ UNCHANGED <<secret, fernet, rotations, secrets, readable>>

\* UPDATE, which waits for the lock.
UpdateSecret(m, r) ==
    /\ r \in rotating[m].todo /\ Decrypts(m, r)
    /\ ~rotating[m].aborted /\ ~Locked(r)
    /\ rotating' = [rotating EXCEPT ![m].todo = @ \ {r}, ![m].locked = @ \cup {r}]
    /\ UNCHANGED <<secret, fernet, rotations, secrets, readable>>

\* An UPDATE fails, as in a deadlock, and all that come after it do so too; each is
\* caught, and the loop goes on.
UpdateFails(m, r) ==
    /\ r \in rotating[m].todo /\ Decrypts(m, r)
    /\ rotating' = [rotating EXCEPT ![m].todo = @ \ {r}, ![m].locked = {}, ![m].aborted = TRUE]
    /\ UNCHANGED <<secret, fernet, rotations, secrets, readable>>

Rewritten(m) ==
    [r \in SecretRows |-> IF r \in rotating[m].locked THEN rotating[m].new ELSE secret[r]]

\* The commit of a transaction that was aborted rolls back and reports no error.
CommitRotation(m) ==
    /\ rotating[m].on /\ rotating[m].todo = {}
    /\ secret' = Rewritten(m)
    /\ fernet' = [fernet EXCEPT ![m] = rotating[m].new]
    /\ readable' = ReadableBy(m, rotating[m].locked,
                              IF rotating[m].aborted THEN {} ELSE readable[m])
    /\ rotating' = [rotating EXCEPT ![m] = NotRotating]
    /\ UNCHANGED <<rotations, secrets>>

\* The SELECT or the commit fails: the key is kept, although the commit may have
\* taken effect.
RotationFails(m) ==
    /\ rotating[m].on /\ rotating[m].todo \in {{}, SecretRows}
    /\ \/ UNCHANGED <<secret, readable>>
       \/ /\ secret' = Rewritten(m)
          /\ readable' = ReadableBy(m, rotating[m].locked, readable[m] \ rotating[m].locked)
    /\ rotating' = [rotating EXCEPT ![m] = NotRotating]
    /\ UNCHANGED <<fernet, rotations, secrets>>

SecretsNext ==
    \E m \in Managers :
        \/ \E new \in CipherKeys : SelectSecrets(m, new)
        \/ \E r \in SecretRows :
            \/ StoreSecret(m, r)
            \/ SkipSecret(m, r) \/ UpdateSecret(m, r) \/ UpdateFails(m, r)
        \/ CommitRotation(m) \/ RotationFails(m)

SecretsSpec == SecretsInit /\ [][SecretsNext]_secretVars

-----------------------------------------------------------------------------
\* A secret that an instance could decrypt can be decrypted with its new key after
\* a rotation, in whatever order rows are written and other instances rotate or
\* store, unless another instance wrote the row since, a statement of the rotation
\* failed, or the row was written during the rotation (rotate_encryption_key).
ReadableAfterRotation ==
    \A m \in Managers : ~rotating[m].on =>
        \A r \in readable[m] : secret[r] = fernet[m]
=============================================================================
