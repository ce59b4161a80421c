---------------------------- MODULE MCFuncHandle ----------------------------
(***************************************************************************)
(* FuncHandle for all the builds that can be made: the release build, and  *)
(* the profile builds for an item of no interest here, func and dump.      *)
(***************************************************************************)
EXTENDS FuncHandle

AllBuilds == {{}, {"debug"}, {"debug", "func"}, {"debug", "dump"}}

==============================================================================
