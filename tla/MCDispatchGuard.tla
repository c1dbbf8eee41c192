-------------------------- MODULE MCDispatchGuard --------------------------
(***************************************************************************)
(* Instances of DispatchGuard for TLC.                                     *)
(***************************************************************************)
EXTENDS DispatchGuard, TLC

CONSTANTS j1, j2, p1, p2, s1, a

\* Two jobs of one agent, each of a policy of its own: with both policies on the
\* same repository or not, every limit can be the one that binds.
MCPolicyOf == j1 :> p1 @@ j2 :> p2

MCOnePolicy == [j \in Job |-> p1]
MCOneSystem == [j \in Job |-> s1]

\* One limit binds in each; zero and below are raised to one.
MCLimits ==
  { [global |-> 0, repo |-> 2, agent |-> 2],
    [global |-> 2, repo |-> 1, agent |-> 2],
    [global |-> 2, repo |-> 2, agent |-> -1] }

MCOneSlot == { [global |-> 2, repo |-> 2, agent |-> 1] }

RequestSymmetry == Permutations(Request)
=============================================================================
