----------------------------- MODULE MCEventLoop -----------------------------
(* EventLoop with two events, one thread besides the loop thread, and     *)
(* callers that arm for reading or disarm.                                *)
EXTENDS EventLoop

CONSTANTS e1, e2, t1

MCEvents == {e1, e2}
MCOthers == {t1}
MCOneEvent == {e1}
MCNoOthers == {}
MCInterests == {{}, {"R"}}
=============================================================================
