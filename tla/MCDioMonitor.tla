---------------------------- MODULE MCDioMonitor ----------------------------
EXTENDS DioMonitor
ReadsMayFail == {LOW, HIGH, Unread}
=============================================================================
