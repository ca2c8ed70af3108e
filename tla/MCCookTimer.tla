---------------------------- MODULE MCCookTimer ----------------------------
EXTENDS CookTimerProperties
=============================================================================
