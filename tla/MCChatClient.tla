---------------------------- MODULE MCChatClient ----------------------------
\* ChatClient for TLC: two sends over two sockets, one old conversation.
EXTENDS ChatClient, TLC

CONSTANT c1

MCSocket == 1..2
MCSend == 1..2
=============================================================================
