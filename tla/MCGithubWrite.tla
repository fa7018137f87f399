--------------------------- MODULE MCGithubWrite ---------------------------
(* Small instances of GithubWrite. *)
EXTENDS GithubWrite, TLC

CONSTANTS put1, put2, post, branch, file, issue, ref, Missing, Pushed

\* Two creations of one file, a comment on an issue, the creation of a branch.
MCKind == [r \in Requests |-> CASE r \in {put1, put2} -> "put"
                                [] r = post           -> "post"
                                [] r = branch         -> "branch"]
MCTarget == [r \in Requests |-> CASE r \in {put1, put2} -> file
                                  [] r = post           -> issue
                                  [] r = branch         -> ref]
ExpectAbsent == [r \in Requests |-> Missing]

CallSymmetry == Permutations(Calls)
=============================================================================
