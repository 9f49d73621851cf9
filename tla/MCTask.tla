------------------------------- MODULE MCTask -------------------------------
(***************************************************************************)
(* taskmain, the tasks it creates and fdtask.  Two ticks make a            *)
(* millisecond, so that epoll_wait's rounding down happens, and epoll_wait  *)
(* waits for one millisecond at most, so that its cap does.                *)
(***************************************************************************)
EXTENDS Task, TLC

CONSTANTS main, fdtask, w1, w2

ThreeTasks == {main, fdtask, w1}
FourTasks == {main, fdtask, w1, w2}
Symmetric == Permutations({w1, w2})
=============================================================================
