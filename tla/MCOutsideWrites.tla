--------------------------- MODULE MCOutsideWrites ---------------------------
(* The two paths by which the control plane writes to somebody else's       *)
(* system, which share no state: one to a behaviour, named by path.         *)
(* Requests for two resources of GitHub share none either, so a behaviour   *)
(* has either the two for one file or the others.                           *)
EXTENDS MCGithubWrite, MCOutboundPermit

VARIABLE path

OutsideInit ==
  /\ path \in {"files", "others", "permit"}
  /\ Init /\ PermitInit
  /\ path # "permit" => scope = CHOOSE s \in Scopes : TRUE

Untouched(requests) ==
  /\ \A r \in requests : caller'[r] = caller[r]
  /\ \A k \in {Target[r] : r \in requests} : content'[k] = content[k]

OutsideNext ==
  /\ UNCHANGED path
  /\ \/ path = "files" /\ Next /\ Untouched({post, branch}) /\ UNCHANGED permitVars
     \/ path = "others" /\ Next /\ Untouched({put1, put2}) /\ UNCHANGED permitVars
     \/ path = "permit" /\ PermitNext /\ UNCHANGED vars

OutsideSpec == OutsideInit /\ [][OutsideNext]_<<vars, permitVars, path>>
=============================================================================
