---------------------------- MODULE DomainClaims ----------------------------
(***************************************************************************)
(* Claims of e-mail domains by workspaces and their verification through   *)
(* DNS TXT records (qpedia-api/src/routes.rs, qpedia-pg-store/src/         *)
(* workspaces.rs, migration 0007).                                         *)
(*                                                                         *)
(* A request here is one of an admin of an organisation workspace.  The    *)
(* verification is three steps, because the token is read, then DNS is     *)
(* asked, and then the row is updated.  The record of a domain is changed  *)
(* by whoever controls its zone, at any time.                              *)
(***************************************************************************)
EXTENDS Integers, FiniteSets

CONSTANTS
  OrgWorkspaces,  \* organisation workspaces
  Domains,
  Tokens,         \* bound: verification tokens ever drawn, all different
  Verifiers,      \* verify requests that may be under way at once
  NoClaim

VARIABLES
  claim,      \* workspace_domains, by workspace and domain
  txt,        \* the tokens in the TXT records of each domain
  verifying,  \* the verify request each verifier has under way, as a set
  issued,     \* history: <<token, workspace, domain>> for every token drawn
  proved      \* history: <<workspace, domain>> whose own token was seen in DNS

domainVars == <<claim, txt, verifying, issued, proved>>

Claims == [token : Tokens, verified : BOOLEAN]
Verifications == [at : {"dns", "mark"}, workspace : OrgWorkspaces, domain : Domains, token : Tokens]

DomainTypeOK ==
  /\ claim \in [OrgWorkspaces -> [Domains -> Claims \cup {NoClaim}]]
  /\ txt \in [Domains -> SUBSET Tokens]
  /\ verifying \in [Verifiers -> SUBSET Verifications]
  /\ \A r \in Verifiers : \A v, w \in verifying[r] : v = w
  /\ issued \subseteq Tokens \X OrgWorkspaces \X Domains
  /\ proved \subseteq OrgWorkspaces \X Domains

DomainInit ==
  /\ claim = [w \in OrgWorkspaces |-> [d \in Domains |-> NoClaim]]
  /\ txt = [d \in Domains |-> {}]
  /\ verifying = [r \in Verifiers |-> {}]
  /\ issued = {} /\ proved = {}

Claimed(w, d) == claim[w][d] # NoClaim
Verified(w, d) == Claimed(w, d) /\ claim[w][d].verified

\* domain_owner: the workspace that has verified the domain.
DomainOwner(d) == {w \in OrgWorkspaces : Verified(w, d)}

\* The partial unique index on verified domains lets an update of w's row pass.
IndexAllows(w, d) == DomainOwner(d) \subseteq {w}

\* claim_domain: a second claim of a domain replaces its token and keeps the rest.
ClaimDomain(w, d, k) ==
  claim' = [claim EXCEPT ![w][d] = [token |-> k, verified |-> Verified(w, d)]]

AddDomain(w, d) ==
  /\ \E k \in Tokens :
       /\ \A i \in issued : i[1] # k
       /\ issued' = issued \cup {<<k, w, d>>}
       /\ ClaimDomain(w, d, k)
  /\ UNCHANGED <<txt, verifying, proved>>

\* verify_domain: domain_verification_token ...
VerifyRead(r, w, d) ==
  /\ verifying[r] = {} /\ Claimed(w, d)
  /\ verifying' = [verifying EXCEPT ![r] =
       {[at |-> "dns", workspace |-> w, domain |-> d, token |-> claim[w][d].token]}]
  /\ UNCHANGED <<claim, txt, issued, proved>>

\* ... txt_records, compared with the token read before ...
VerifyAsk(r) ==
  \E v \in verifying[r] :
    /\ v.at = "dns"
    /\ IF v.token \in txt[v.domain]
       THEN /\ verifying' = [verifying EXCEPT ![r] = {[v EXCEPT !.at = "mark"]}]
            /\ proved' = proved \cup {<<v.workspace, v.domain>>}
       ELSE verifying' = [verifying EXCEPT ![r] = {}] /\ UNCHANGED proved
    /\ UNCHANGED <<claim, txt, issued>>

\* Seeded fault: the check that nobody has verified the domain is made when DNS has
\* answered, and the update relies on it.
VerifyMarkUnindexed(r) ==
  \E v \in verifying[r] :
    /\ v.at = "mark"
    /\ verifying' = [verifying EXCEPT ![r] = {}]
    /\ IF Claimed(v.workspace, v.domain)
       THEN claim' = [claim EXCEPT ![v.workspace][v.domain].verified = TRUE]
       ELSE UNCHANGED claim
    /\ UNCHANGED <<txt, issued, proved>>

\* ... and the update of the claim, whatever its token is by now: none without a row,
\* and refused by the index when another workspace has verified the domain.
VerifyMark(r) ==
  \E v \in verifying[r] :
    /\ v.at = "mark"
    /\ verifying' = [verifying EXCEPT ![r] = {}]
    /\ IF Claimed(v.workspace, v.domain) /\ IndexAllows(v.workspace, v.domain)
       THEN claim' = [claim EXCEPT ![v.workspace][v.domain].verified = TRUE]
       ELSE UNCHANGED claim
    /\ UNCHANGED <<txt, issued, proved>>

\* The DNS query or a statement fails, or the process dies.
VerifyFails(r) ==
  /\ verifying[r] # {}
  /\ verifying' = [verifying EXCEPT ![r] = {}]
  /\ UNCHANGED <<claim, txt, issued, proved>>

DeleteDomain(w, d) ==
  /\ Claimed(w, d)
  /\ claim' = [claim EXCEPT ![w][d] = NoClaim]
  /\ UNCHANGED <<txt, verifying, issued, proved>>

\* The zone's owner adds a record a workspace was told to, or drops all of them.
ChangeZone(d) ==
  /\ \/ \E i \in issued : i[3] = d /\ txt' = [txt EXCEPT ![d] = @ \cup {i[1]}]
     \/ txt' = [txt EXCEPT ![d] = {}]
  /\ UNCHANGED <<claim, verifying, issued, proved>>

DomainNext ==
  \/ \E w \in OrgWorkspaces, d \in Domains : AddDomain(w, d) \/ DeleteDomain(w, d)
  \/ \E r \in Verifiers :
       \/ \E w \in OrgWorkspaces, d \in Domains : VerifyRead(r, w, d)
       \/ VerifyAsk(r) \/ VerifyMark(r) \/ VerifyFails(r)
  \/ \E d \in Domains : ChangeZone(d)

DomainSpec == DomainInit /\ [][DomainNext]_domainVars

-----------------------------------------------------------------------------
\* A domain is verified for one workspace at most, and for a workspace only after a
\* token it was given, for that domain, was found in the domain's zone: whatever is
\* claimed again, deleted or verified elsewhere while DNS is asked.
DomainsAreProved ==
  \A d \in Domains :
    /\ Cardinality(DomainOwner(d)) <= 1
    /\ \A w \in DomainOwner(d) : <<w, d>> \in proved
=============================================================================
