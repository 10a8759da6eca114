-------------------------- MODULE MCSessionLifecycle ---------------------------
(***************************************************************************)
(* Two agents: a1 and a2 are sessions of one, which works on lane la, and  *)
(* b1 is a session of the other, on lane lb.  The lanes share a worktree.  *)
(***************************************************************************)
EXTENDS SessionLifecycle, TLC

CONSTANTS a1, a2, b1, la, lb, p1, p2, w1

MCAgentOf == (a1 :> "A") @@ (a2 :> "A") @@ (b1 :> "B") @@ (la :> "A") @@ (lb :> "B")
MCWorktreeOf == [l \in Lane |-> w1]

Src  == <<"src">>
File == <<"src", "f">>

MCRoot  == <<".">>
MCPath  == {Src, File, MCRoot}
MCShape == {[plan |-> p1, type |-> "program", paths |-> {},     parent |-> NoLane],
            [plan |-> p1, type |-> "write",   paths |-> {Src},  parent |-> NoLane],
            [plan |-> p1, type |-> "write",   paths |-> {Src},  parent |-> la],
            [plan |-> p2, type |-> "write",   paths |-> {File}, parent |-> NoLane]}

Alike == Permutations({a1, a2})
=============================================================================
