------------------------------ MODULE MCService ------------------------------
(***************************************************************************)
(* The service, for TLC.                                                   *)
(*                                                                         *)
(* Calls.  Three mailboxes: a has both servers, b only IMAP and s only     *)
(* SMTP; the login x is that of a and of b, so that what it names depends  *)
(* on what the token sees.  The tokens are those of docs/configuration.md  *)
(* and the ones that separate two scopes.  The call "work" makes every     *)
(* request; the call "watch" reads the audit log at any moment of it.      *)
(*                                                                         *)
(* Mail.  The mailbox is me, with the senders of *@domain: sales and help. *)
(* The first letter is of any kind, later ones thread in every way, and    *)
(* the last message is a reply or an echo.  Who answers the first letter   *)
(* may name a sender, a good one or one that is refused.                   *)
(***************************************************************************)
EXTENDS Service

MCConfigured == <<"a", "b", "s">>
MCLogins == [m \in {"a", "b", "s"} |->
               CASE m = "a" -> {"x"} [] m = "b" -> {"x", "y"} [] OTHER -> {}]

MCScopesOf ==
  [all |-> {"read", "draft", "organize", "send", "delete", "admin"},
   reader |-> {"read"}, drafter |-> {"draft"}, replier |-> {"draft", "send"},
   sender |-> {"send", "read"}, organizer |-> {"organize"}, eraser |-> {"delete"},
   remover |-> {"organize", "delete"}, admin |-> {"admin", "organize"}]
MCAllowedOf ==
  [t \in DOMAIN MCScopesOf |->
     CASE t \in {"admin", "replier"} -> {"b"} [] t = "drafter" -> {"a", "s"}
       [] OTHER -> Everywhere]
MCTokens == DOMAIN MCScopesOf

\* Where a request is not well formed, one ident and two tokens are enough: the
\* form is looked at without regard to who asks.
MCAsked(c) ==
  IF c = "watch"
  THEN {[token |-> t, surface |-> "http", op |-> "audit_log", ident |-> None,
         options |-> {}, form |-> "fine"] : t \in {"admin", "all"}}
  ELSE {r \in [token : MCTokens \cup {None}, surface : {"http", "mcp"}, op : Operations,
               ident : {"a", "b", "s", "x", "ghost", None},
               options : {o \in SUBSET Options : Cardinality(o) <= 3}, form : Forms] :
          /\ r.form # "fine" => r.token \in {"all", "reader"} /\ r.ident = "a"
          /\ r.token = None => r.ident = "a" /\ r.options = {}
          /\ r.op # "audit_log" /\ r.options \subseteq Selectable(r)}

Letter(from, reply_to, to, cc) ==
  [from |-> from, reply_to |-> reply_to, to |-> to, cc |-> cc, subject |-> "s"]
MCLetters(n) ==
  CASE n = 0 -> {Letter("x", <<"list", "x">>, <<"y", "sales">>, <<"me">>),
                 Letter("x", <<"me">>, <<"x", "me">>, <<"y">>),
                 Letter("me", <<>>, <<"sales", "help">>, <<"x", "y">>),
                 [Letter("me", <<>>, <<"me">>, <<>>) EXCEPT !.subject = "t"]}
    [] n = 3 -> {}
    [] OTHER -> {Letter("x", <<>>, <<"me">>, <<>>)}
MCWanted(n) == IF n = 1 THEN {"help", "x", "nobody"} ELSE {"nobody"}
MCIdentities == <<"*@", "me">>
MCCovers == [i \in {"*@", "me"} |-> IF i = "me" THEN {"me"} ELSE {"sales", "help", "me"}]
=============================================================================
