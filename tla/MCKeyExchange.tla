---------------------------- MODULE MCKeyExchange ----------------------------
(***************************************************************************)
(* KeyExchange with the setups the runs start from: a plain one and what   *)
(* is different about each of the others.                                  *)
(***************************************************************************)
EXTENDS KeyExchange

Plain == [ client |-> <<"x25519", "mlkem">>, server |-> <<"mlkem", "x25519">>,
           speaks |-> [min |-> 1, max |-> 2], accepts |-> [min |-> 1, max |-> 2],
           tcp |-> FALSE, allow_tcp |-> TRUE, diff |-> "Reliable", env |-> FALSE,
           agent |-> "none", key |-> "plain", ml_dsa |-> FALSE,
           account |-> TRUE, authorized |-> TRUE, host |-> "unknown" ]
V1 == [min |-> 1, max |-> 1]
V2 == [min |-> 2, max |-> 2]

MCSetups == {
    Plain,
    [Plain EXCEPT !.tcp = TRUE, !.diff = "StateSync", !.key = "encrypted"],
    [Plain EXCEPT !.tcp = TRUE, !.allow_tcp = FALSE, !.host = "other", !.env = TRUE],
    [Plain EXCEPT !.tcp = TRUE, !.speaks = V1, !.host = "unchecked", !.agent = "empty"],
    [Plain EXCEPT !.speaks = V1, !.accepts = V2, !.agent = "down", !.host = "same"],
    [Plain EXCEPT !.server = <<"p384">>],
    [Plain EXCEPT !.ml_dsa = TRUE, !.agent = "serves", !.diff = "Datagram",
                  !.env = TRUE, !.host = "same"],
    [Plain EXCEPT !.authorized = FALSE],
    [Plain EXCEPT !.account = FALSE],
    [Plain EXCEPT !.key = "missing"],
    [Plain EXCEPT !.key = "mismatch"] }

=============================================================================
