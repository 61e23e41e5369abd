---- MODULE MCAsyncClient ----
\* TLC instance of AsyncClient.
EXTENDS AsyncClient, TLC

CONSTANTS r1, c1, c2

====
