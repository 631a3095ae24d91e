---------------------------- MODULE MCFlicSession ----------------------------
(***************************************************************************)
(* The instances of FlicSession that TLC checks.                           *)
(***************************************************************************)
EXTENDS FlicSessionOrder, TLC

\* Packets for another client of the same button.
ForeignPackets ==
    {[Plain EXCEPT !.op = "QUICK_VERIFY_RESPONSE", !.conn = 2, !.new = TRUE,
                   !.tmp = "other", !.sig = <<"theirs", 0>>],
     [Plain EXCEPT !.op = "FULL_VERIFY_RESPONSE_1", !.conn = 2, !.new = TRUE,
                   !.tmp = "other"],
     [Plain EXCEPT !.op = "NO_LOGICAL_CONNECTION_SLOTS", !.tmp = "other"],
     [Plain EXCEPT !.op = "BUTTON_EVENT", !.conn = 2, !.sig = <<"theirs", 1>>,
                   !.count = 5]}

\* Packets no correct button sends: one for each test of the code.
MalformedReconnect ==
    {[Plain EXCEPT !.op = "EMPTY"],
     [Plain EXCEPT !.op = "NO_LOGICAL_CONNECTION_SLOTS", !.fault = "short"],
     [Plain EXCEPT !.op = "QUICK_VERIFY_RESPONSE", !.conn = 1],
     [Plain EXCEPT !.op = "QUICK_VERIFY_RESPONSE", !.conn = 1, !.new = TRUE,
                   !.sig = <<"theirs", 0>>],
     [Plain EXCEPT !.op = "INIT_RESPONSE", !.conn = 1, !.fault = "short",
                   !.sig = <<"own", 1>>],
     [Plain EXCEPT !.op = "INIT_RESPONSE", !.conn = 1, !.fault = "bootId",
                   !.count = 7, !.sig = <<"own", 1>>],
     [Plain EXCEPT !.op = "BUTTON_EVENT", !.conn = 1, !.count = 9],
     [Plain EXCEPT !.op = "BUTTON_EVENT", !.conn = 1, !.count = 9,
                   !.sig = <<"theirs", 2>>],
     [Plain EXCEPT !.op = "BUTTON_EVENT", !.conn = 1, !.fault = "short",
                   !.sig = <<"own", 2>>]}

\* The same for a full pairing, signed packets of the handshake included.
Response1 == [Plain EXCEPT !.op = "FULL_VERIFY_RESPONSE_1", !.conn = 1,
                           !.new = TRUE]
Response2 == [Plain EXCEPT !.op = "FULL_VERIFY_RESPONSE_2", !.conn = 1,
                           !.sig = <<"own", 0>>]
MalformedPairing ==
    {[Response1 EXCEPT !.new = FALSE],
     [Response1 EXCEPT !.fault = "address"],
     [Response1 EXCEPT !.fault = "certificate"],
     [Response2 EXCEPT !.sig = NoSig],
     [Response2 EXCEPT !.sig = <<"theirs", 0>>],
     [Response2 EXCEPT !.conn = 2],
     [Response2 EXCEPT !.fault = "credentials"],
     [Response2 EXCEPT !.fault = "short"],
     [Plain EXCEPT !.op = "BUTTON_EVENT", !.conn = 1, !.fault = "short",
                   !.sig = <<"own", 2>>]}

-----------------------------------------------------------------------------
\* A reconnect of the runtime, and async_pair_device with a fragmenting Duo; five
\* signed packets are a response, an init response and three events, four are
\* enough for two acknowledgements with a gap.
Reconnect == [full |-> FALSE, lock |-> TRUE, smallMtu |-> FALSE, duo |-> FALSE,
              honest |-> TRUE, maxSigned |-> 5]
Pairing == [full |-> TRUE, lock |-> FALSE, smallMtu |-> TRUE, duo |-> TRUE,
            honest |-> TRUE, maxSigned |-> 4]

\* The same with malformed packets at any time, up to the init response.
SafetySetups ==
    {Reconnect, Pairing,
     [Reconnect EXCEPT !.honest = FALSE, !.maxSigned = 2],
     [Pairing EXCEPT !.honest = FALSE, !.maxSigned = 2, !.smallMtu = FALSE]}

\* Both over fragments, for the liveness run.
LiveSetups ==
    {[Reconnect EXCEPT !.smallMtu = TRUE, !.duo = TRUE, !.maxSigned = 3],
     [Pairing EXCEPT !.maxSigned = 3]}

SetupStrays ==
    [s \in Setups |->
       IF s.honest THEN ForeignPackets
       ELSE IF s.full THEN MalformedPairing ELSE MalformedReconnect]

\* Handlers are interchangeable; used for the safety run only.
Symmetry == Permutations(Handlers)
=============================================================================
