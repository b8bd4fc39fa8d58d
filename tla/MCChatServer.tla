---------------------------- MODULE MCChatServer ----------------------------
EXTENDS ChatServer

CONSTANTS ann, bob, cleo

\* Ann only listens.
Talk == [p \in People |-> IF p = ann THEN 0 ELSE 1]
InOrder == <<ann, bob, cleo>>
=============================================================================
