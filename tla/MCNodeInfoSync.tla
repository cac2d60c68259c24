--------------------------- MODULE MCNodeInfoSync ---------------------------
(***************************************************************************)
(* Instances of NodeInfoSync: two calls, up to two peers, and the          *)
(* situations each cfg looks at.                                           *)
(***************************************************************************)
EXTENDS TLC, NodeInfoSync

CONSTANTS p1, p2,      \* peers
          s1,          \* an item
          k1, k2,      \* calls
          app, service \* the application's Node, the delegate of a service

MCPeer == {p1, p2}
MCOnePeer == {p1}
MCItem == {s1}

MCCall == {k1, k2}
MCOneCall == {k1}
MCHandle == k1 :> app @@ k2 :> app
MCServiceHandle == k1 :> service
MCRunning == {app}
MCNotRunning == {}

MCSituations == {{}, {"exclusive"}, {"exclusive", "apart"},
                 {"exclusive", "breaks"}, {"exclusive", "apart", "late"}}
MCFree == {{}}
MCExclusive == {{"exclusive"}}
MCApart == {{"exclusive", "apart"}}
MCLate == {{"exclusive", "apart", "late"}}
MCBreaks == {{"exclusive", "apart", "breaks"}}

=============================================================================
