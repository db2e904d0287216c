---------------------------- MODULE MCChannelSend ----------------------------
EXTENDS ChannelSend
=============================================================================
