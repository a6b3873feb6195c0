------------------------------ MODULE MCTenancy ------------------------------
(***************************************************************************)
(* Small instances, for TLC, of the modules that model what a tenant is    *)
(* made of: workspaces, domain claims, handshakes and the cache of signing *)
(* keys.  The code of these parts shares no state (handshakes keep to      *)
(* oidc_pending, oauth_grants and connectors, claims to workspace_domains, *)
(* keys to the memory of the process), so nothing is lost by looking at    *)
(* one part at a time: focus picks the part that runs, and the others stay *)
(* as they begin.                                                          *)
(***************************************************************************)
EXTENDS Workspaces, DomainClaims, Handshakes, KeyCache, TLC

CONSTANTS
  Foci,    \* the parts this instance looks at
  u1, u2, h1, h2, o1

VARIABLE focus

tenancyVars == <<workspaceVars, domainVars, handshakeVars, keyVars, focus>>

MCSlugs == <<o1>>
MCHome == [u \in Users |-> IF u = u1 THEN h1 ELSE h2]
MCProvisioned == [u \in Users |-> IF u = u2 THEN {o1} ELSE {}]
MCUnprovisioned == [u \in Users |-> {}]

TenancySymmetry == Permutations(Browsers)

TenancyInit == focus \in Foci /\ WorkspacesInit /\ DomainInit /\ HandshakeInit /\ KeyInit

TenancyNext ==
  /\ UNCHANGED focus
  /\ \/ focus = "workspaces" /\ WorkspacesNext /\ UNCHANGED <<domainVars, handshakeVars, keyVars>>
     \/ focus = "domains" /\ DomainNext /\ UNCHANGED <<workspaceVars, handshakeVars, keyVars>>
     \/ focus = "handshakes" /\ HandshakeNext /\ UNCHANGED <<workspaceVars, domainVars, keyVars>>
     \/ focus = "keys" /\ KeyNext /\ UNCHANGED <<workspaceVars, domainVars, handshakeVars>>

TenancySpec == TenancyInit /\ [][TenancyNext]_tenancyVars

\* The type invariants of the modules, each while its part runs.
TenancyTypeOK ==
  /\ focus = "workspaces" => WorkspacesTypeOK
  /\ focus = "domains" => DomainTypeOK
  /\ focus = "handshakes" => HandshakeTypeOK
  /\ focus = "keys" => KeyTypeOK
=============================================================================
