---------------------------- MODULE MCWalletServer ----------------------------
(* A small instance of WalletServer for TLC.  Sizes are bytes on a scale   *)
(* where the caps are 2 and 3 and the largest int64 is 7.                  *)
EXTENDS WalletServer

CONSTANTS money

Server(freespins, secret, cap) ==
    [handler |-> TRUE, freespins |-> freespins, apiSecret |-> secret, maxBodyBytes |-> cap]

MCServers ==
    {Server(TRUE, "s", 2), Server(FALSE, "s", 3), Server(TRUE, "s", -2),
     Server(TRUE, " ", 2), [Server(TRUE, "s", 2) EXCEPT !.handler = FALSE]}

(* WithMaxBodyBytes(math.MaxInt): no cap, one would think. *)
UncappedServers == {Server(TRUE, "s", 7)}

Blank ==
    [account_id |-> "", currency |-> "", game_id |-> "", round_id |-> "",
     round_id_provider |-> "", issue_id |-> "", amount |-> None, transactions |-> <<>>]

Transaction(type, amount, original) ==
    [id_provider |-> "x", type |-> type, amount |-> amount, original_id_provider |-> original]

(* A balance and, with round_id, a finish; with a batch, a betwin. *)
Player == [Blank EXCEPT !.account_id = "a", !.currency = "EUR", !.game_id = "g"]
Round == [Player EXCEPT !.round_id = "p"]
BetOf(n) == [Round EXCEPT !.transactions = <<Transaction("bet", 1, ""), Transaction("win", n, "")>>]
Undo(o) ==
    [Player EXCEPT !.game_id = "", !.round_id_provider = "p",
                   !.transactions = <<Transaction("rollback", None, o)>>]
Issue(n) == [Blank EXCEPT !.issue_id = "i", !.amount = n]

MCContents ==
    {Blank, Player, [Round EXCEPT !.game_id = ""], [Player EXCEPT !.currency = "eur"],
     BetOf(1), BetOf(0), BetOf(None), Undo("x"), Undo(""), Issue(0), Issue(None)}

MCBodies ==
    {Empty} \cup {[size |-> n, content |-> c] : n \in {2}, c \in MCContents \cup {Garbage}}
            \cup {[size |-> n, content |-> c] : n \in {1, 3, 4}, c \in {Player, Issue(0)}}

MCPaths ==
    {<<>>, <<"balance">>, <<"wallet", "betwin">>, <<"rollback", "">>, <<"wallet", "finish", "">>,
     <<"wallet", "freespins", "finish">>, <<"freespins", "">>, <<"myfreespins", "finish">>}

SignaturesOf(b) ==
    {None, Forged, Sign(b, "s"), Sign(b, "other"), Sign(Empty, "s"),
     Sign([b EXCEPT !.size = 3], "s")}

Http(path, method, body, delivered, signature) ==
    [entry |-> "http", path |-> path, method |-> method, body |-> body,
     delivered |-> delivered, signature |-> signature]

Whole(paths, bodies) ==
    UNION {{Http(path, "POST", b, b.size, s) : path \in paths, s \in SignaturesOf(b)} :
              b \in bodies}

MCRequests ==
    Whole(MCPaths, MCBodies)
      \cup {Http(path, "GET", Empty, 0, None) : path \in MCPaths}
      \cup {Http(<<"balance">>, "POST", b, n, Sign(b, "s")) : b \in MCBodies, n \in 0..3}
      \cup {[Http(<<>>, "POST", b, b.size, s) EXCEPT !.entry = "dispatch"] :
                b \in {[size |-> 2, content |-> Player]},
                s \in SignaturesOf([size |-> 2, content |-> Player])}

UncappedRequests == Whole({<<"balance">>}, MCBodies)

(* A funds error without its balance, and a status of the operator's own. *)
MCLiteralErrors ==
    {WalletError(400, "invalid_argument", "100", None, "literal"),
     WalletError(500, "internal", "101", None, "literal")}
=============================================================================
