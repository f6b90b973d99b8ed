--------------------------- MODULE InputAggregator ---------------------------
(***************************************************************************)
(* MidiMapping::InputAggregator: which logical inputs (dit, dah, straight  *)
(* key, PTT) each source holds.  A source is a device connection; an input *)
(* is active as long as one source holds it.  Only the UI thread uses it.  *)
(* IambicKeyer takes any behaviour of it as its environment; MidiDevices   *)
(* implements it.                                                          *)
(***************************************************************************)
CONSTANTS Sources, Inputs

VARIABLE inputs     \* m_sources; a source that was removed holds nothing

Aggregate(held) == UNION {held[s] : s \in Sources}
Active == Aggregate(inputs)

(* setInput *)
SetInput(s, input, pressed) ==
    inputs' = [inputs EXCEPT ![s] = IF pressed THEN @ \cup {input} ELSE @ \ {input}]

(* clearSource *)
ClearSource(s) == inputs' = [inputs EXCEPT ![s] = {}]

Init == inputs = [s \in Sources |-> {}]
Next == \E s \in Sources :
            \/ ClearSource(s)
            \/ \E input \in Inputs, pressed \in BOOLEAN : SetInput(s, input, pressed)
Spec == Init /\ [][Next]_inputs
=============================================================================
