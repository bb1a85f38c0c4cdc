------------------------------ MODULE MCEngines ------------------------------
EXTENDS Engines

Report(m, s, h, u) == [malicious |-> m, suspicious |-> s, harmless |-> h, undetected |-> u]

\* Nobody took part; one kind of answer each; engines that disagree.
MCReports ==
    {Report(0, 0, 0, 0), Report(1, 0, 0, 0), Report(0, 1, 0, 0),
     Report(0, 0, 1, 0), Report(0, 0, 0, 1), Report(1, 0, 1, 0)}
==============================================================================
