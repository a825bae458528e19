---- MODULE MCRtpSource ----
\* Instances of RtpSource for TLC.  The sequence numbers have few values, so
\* that they wrap several times, and in RtpSource.cfg a word is two of their
\* cycles, so that the extended numbers and the counts wrap as well.
EXTENDS RtpSource
====
