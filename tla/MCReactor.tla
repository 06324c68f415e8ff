----------------------------- MODULE MCReactor -----------------------------
(* Reactor for TLC: a client that posts or stops the server, and one that  *)
(* comes and goes.                                                         *)
EXTENDS Reactor, TLC

CONSTANTS c1, c2

TwoClients == (c1 :> {<<"SEND">>, <<"STOP">>})
              @@ (c2 :> {<<"CONNECT", "DISCONNECT">>, <<"SEND", "DISCONNECT">>})

\* A client that logs in twice over one connection, while the other one tweets.
ConnectTwice == (c1 :> {<<"SEND", "SEND", "SEND">>}) @@ (c2 :> {<<"CONNECT", "CONNECT">>})
=============================================================================
