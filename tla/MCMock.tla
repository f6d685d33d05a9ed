-------------------------------- MODULE MCMock --------------------------------
(* The mock over three cycles of one and two rows, cut into frames of one to two *)
(* rows, and a fourth cycle without frames, as tests/fixtures.rs runs it.        *)
EXTENDS MockDb, MCSession

MCRowBytes == [i \in 0..(InputRows - 1) |-> IF i = 1 THEN 3 ELSE 1]

\* The premise of the theorems about the mock.
ASSUME RunAdmitsMock == AdmitsMock
=============================================================================
