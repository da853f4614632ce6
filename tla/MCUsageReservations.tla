------------------------ MODULE MCUsageReservations ------------------------
(* Instances of UsageReservations for TLC. *)
EXTENDS UsageReservations, TLC

CONSTANTS r1, r2, r3, k1, k2, rewrite, dictation, transcription, transformation

\* One body of two units of the scarce kind, one of a single unit of it.
MCKindOf == [b \in Bodies |-> transcription]
MCUnitsOf == [b \in Bodies |-> IF b = dictation THEN 2 ELSE 1]
MCLimit == [kd \in Kinds |-> 2]
\* A month lasts three instants: a reservation expires within its month or after it.
MCMonthOf == [t \in 0 .. MaxTime |-> t \div 3]

Symmetry == Permutations(Requests) \cup Permutations(Keys)
=============================================================================
