---------------------------- MODULE MCViewerPage ----------------------------
(* ViewerPage with a client whose setName packets carry, by their number, the *)
(* texts "client-template", "b", ".y", "t-b" and "|c".  An id is the sequence *)
(* of the pieces it is put together from.                                     *)
EXTENDS ViewerPage

MCId(c, name) == SelectSeq(name, LAMBDA k : k # 5)
MCCut(c, name) == 5 \in Range(name)

\* Selectors: "#client-template"; "#bt-b", the button of the tab "b"; one with a
\* class, which no element has; and otherwise the tab itself.
MCSelects(id, e) ==
    \/ id = <<1>> /\ e = <<"template">>
    \/ id = <<2, 4>> /\ e = <<"part", <<2>>>>
    \/ id # <<1>> /\ 3 \notin Range(id) /\ e = <<"tab", id>>

\* "#.y" is not a selector.
MCBadSelector(id) == id # <<>> /\ Head(id) = 3
=============================================================================
