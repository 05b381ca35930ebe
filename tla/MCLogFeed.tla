----------------------------- MODULE MCLogFeed ------------------------------
EXTENDS LogFeed

AllFeeds == {logs, serviceHttpLogs("-time")}
=============================================================================
