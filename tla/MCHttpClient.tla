---------------------------- MODULE MCHttpClient ----------------------------
EXTENDS HttpClient
\* A header below the base, one inside the limits and one above the cap.
MCRetryAfters == {0, 2, 9}
=============================================================================
