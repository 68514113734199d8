------------------------------- MODULE Exchange -------------------------------
(***************************************************************************)
(* What the transport protocol is for: the server hears the client's texts  *)
(* one after the other, and answers each before it hears the next.          *)
(***************************************************************************)
EXTENDS Naturals, Sequences

CONSTANTS Texts, piglatinize(_)

VARIABLES heard, responses

ExchangeInit == heard = <<>> /\ responses = <<>>

Request ==
    /\ Len(heard) = Len(responses) /\ Len(heard) < Len(Texts)
    /\ heard' = Append(heard, Texts[Len(heard) + 1])
    /\ UNCHANGED responses

Reply ==
    /\ Len(responses) < Len(heard)
    /\ responses' = Append(responses, piglatinize(heard[Len(heard)]))
    /\ UNCHANGED heard

ExchangeSpec == ExchangeInit /\ [][Request \/ Reply]_<<heard, responses>>
=============================================================================
