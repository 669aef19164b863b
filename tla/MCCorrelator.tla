---------------------------- MODULE MCCorrelator ----------------------------
(* Clicks and submits in one tab and its frames, and requests they may or may *)
(* not explain.                                                               *)
EXTENDS Correlator

CONSTANT Gaps   \* the milliseconds that may pass between two observations

Click(frame, gap) ==
  [kind |-> "action", target |-> "tab", frame |-> frame, path |-> None,
   method |-> None, trusted |-> TRUE, submit |-> FALSE, time |-> gap]
Submit(gap) ==
  [kind |-> "action", target |-> "tab", frame |-> "top", path |-> "buy",
   method |-> "POST", trusted |-> FALSE, submit |-> TRUE, time |-> gap]
RequestOf(target, frame, path, gesture, gap) ==
  [kind |-> "request", target |-> target, frame |-> frame, path |-> path,
   method |-> IF path = "buy" THEN "POST" ELSE "GET", gesture |-> gesture, time |-> gap]

MCActions ==
  UNION {{Click("top", gap), Click("inner", gap), Submit(gap)} : gap \in Gaps}
MCRequests ==
  UNION {{RequestOf("tab", "top", "buy", FALSE, gap), RequestOf("tab", None, "list", TRUE, gap),
          RequestOf("other", "top", "buy", TRUE, gap)} : gap \in Gaps}
=============================================================================
