------------------------------ MODULE MCServices ------------------------------
(* Instances of the services around the indexes, for TLC: the registry, the  *)
(* semantic index, tokens and keys, permissions, the audit log, and the health *)
(* of the application.                                                         *)
(* They share no variables: a behaviour is one of a single part, in which the  *)
(* others rest, so that TLC visits the sum and not the product of their states.*)
EXTENDS Registry, SemanticIndex, Tokens, ApiKeys, SecretRotation, Permissions, AuditTrail,
        ServiceHealth, TLC

VARIABLE part

CONSTANTS s1, s2, i1, i2, j1, u1, u2, x1, x2, f1, f2

OwnUrls == i1 :> u1 @@ i2 :> u2
JobOfFirst == j1 :> i1
HalfSeconds == [access |-> 2, refresh |-> 3]
Symmetry == Permutations({s1, s2})

\* Bodies that are empty, short enough for one chunk, or not, with lines that are
\* empty, short or too long, among them one of two chunks with one id.  The second
\* indexer knows only that one.
SomeBodies == (x1 :> {<<0>>, <<2, 2>>, <<2, 2, 2>>, <<2, 2, 6>>, <<6, 0, 2>>, <<0, 6, 2>>,
                      <<2, 6, 2>>})
                @@ (x2 :> {<<2, 6>>})

\* The file f1 is nearer to the query than f2, beginnings more than the rest.
Similarity(id) == CASE id[1] = f1 -> 9
                    [] id[1] = f2 /\ id[2] = 1 -> 8
                    [] OTHER -> 6
FanInOut == (f1 :> 10) @@ (f2 :> 10)

vars == <<part, registryVars, indexVars, tokenVars, keyVars, secretVars, rightVars,
          auditVars, healthVars>>

\* A part that rests has one of its initial states.
Init ==
    /\ part \in {"registry", "index", "tokens", "keys", "secrets", "rights", "audit", "health"}
    /\ RegistryInit /\ IndexInit /\ TokensInit /\ KeysInit /\ SecretsInit /\ RightsInit
    /\ AuditInit /\ HealthInit
    /\ part # "index" => provider = "none"
    /\ part # "tokens" => blacklisting
    /\ part # "secrets" => \A r \in SecretRows : secret[r] = Hash
    /\ part # "rights" => isPublic /\ isMember /\ acl = {} /\ role = NoRole
    /\ part # "health" => up = {}

Next ==
    /\ UNCHANGED part
    /\ \/ /\ part = "registry" /\ RegistryNext
          /\ UNCHANGED <<indexVars, tokenVars, keyVars, secretVars, rightVars,
                         auditVars, healthVars>>
       \/ /\ part = "index" /\ IndexNext
          /\ UNCHANGED <<registryVars, tokenVars, keyVars, secretVars, rightVars,
                         auditVars, healthVars>>
       \/ /\ part = "tokens" /\ TokensNext
          /\ UNCHANGED <<registryVars, indexVars, keyVars, secretVars, rightVars,
                         auditVars, healthVars>>
       \/ /\ part = "keys" /\ KeysNext
          /\ UNCHANGED <<registryVars, indexVars, tokenVars, secretVars, rightVars,
                         auditVars, healthVars>>
       \/ /\ part = "secrets" /\ SecretsNext
          /\ UNCHANGED <<registryVars, indexVars, tokenVars, keyVars, rightVars,
                         auditVars, healthVars>>
       \/ /\ part = "rights" /\ RightsNext
          /\ UNCHANGED <<registryVars, indexVars, tokenVars, keyVars, secretVars,
                         auditVars, healthVars>>
       \/ /\ part = "audit" /\ AuditNext
          /\ UNCHANGED <<registryVars, indexVars, tokenVars, keyVars, secretVars,
                         rightVars, healthVars>>
       \/ /\ part = "health" /\ HealthNext
          /\ UNCHANGED <<registryVars, indexVars, tokenVars, keyVars, secretVars,
                         rightVars, auditVars>>

Spec == Init /\ [][Next]_vars
===============================================================================
