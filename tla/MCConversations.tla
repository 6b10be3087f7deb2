--------------------------- MODULE MCConversations ---------------------------
(* An instance of Conversations: an operator and two moderators, a chat     *)
(* window each, and two messages (one where handlers interleave).           *)
EXTENDS Conversations

CONSTANTS t1, t2, t3, s, a, b

MCUserOf == [t \in {t1, t2, t3} |-> CASE t = t1 -> s [] t = t2 -> a [] OTHER -> b]

MCRoleOf == [u \in {s, a, b} |-> IF u = s THEN "OPERATOR" ELSE "MODERATOR"]

MCLimit == [one \in BOOLEAN |-> IF one THEN 2 ELSE 1]

\* One case chat message to everybody, to a role and to a user, one direct message.
MCAddresses ==
  {[inCase |-> TRUE,  toUser |-> Nobody, toRole |-> NoRole],
   [inCase |-> TRUE,  toUser |-> Nobody, toRole |-> "MODERATOR"],
   [inCase |-> TRUE,  toUser |-> a,      toRole |-> "MODERATOR"],
   [inCase |-> FALSE, toUser |-> a,      toRole |-> NoRole]}
=============================================================================
