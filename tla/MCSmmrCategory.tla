--------------------------- MODULE MCSmmrCategory ---------------------------
(***************************************************************************)
(* A server, clients, and pages with room for two or three items.          *)
(***************************************************************************)
EXTENDS SmmrCategory

MCLimit == <<1, 2, 3, 4>>
=============================================================================
