----------------------------- MODULE MCPollWalk -----------------------------
(* PollWalk for TLC: two polls, and more bills than a page holds.           *)
EXTENDS PollWalk
=============================================================================
