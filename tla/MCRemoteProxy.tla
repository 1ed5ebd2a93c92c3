---------------------------- MODULE MCRemoteProxy ----------------------------
EXTENDS RemoteProxy

CONSTANTS q1, q2, q3, phone, laptop, home
=============================================================================
