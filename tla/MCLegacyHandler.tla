-------------------------- MODULE MCLegacyHandler --------------------------
(***************************************************************************)
(* One admission request of the legacy DockerHandler, for pods of at most  *)
(* one init container and two containers.                                  *)
(***************************************************************************)
EXTENDS LegacyHandler, TLC

CONSTANTS DockerIO, R1, T1, T2, D1, D2, K1, K2, Alice, N1, N2, Reg, Other

MCRegistries == {DockerIO, R1}
MCNotaryRegistries == {R1}
MCTags == {T1, T2}
MCDigests == {D1, D2}
MCKeys == {K1, K2}
MCSigners == {Alice}
MCSignerKeys == Alice :> {K1}
\* No signer policy, or one policy naming Alice.
MCPolicyLists == {<<>>, <<<<Alice>>>>}
MCWhiteListedImages == {[registry |-> DockerIO, tag |-> T2]}
MCNamespaces == {N1, N2}
\* "Reg" exists in another namespace, listed first, and in the pod's own.
MCClusterSecrets ==
  <<[namespace |-> N2, name |-> Reg, creds |-> TRUE],
    [namespace |-> N1, name |-> Reg, creds |-> TRUE]>>
MCSecretNames == {Reg, Other}
=============================================================================
