---------------------------- MODULE MCEspFsTools -----------------------------
(* Texts and files for the model checking of EspFsTools. *)
EXTENDS EspFsTools

Repeat(s, n) == [i \in 1..n |-> s[((i - 1) % Len(s)) + 1]]
Count(n) == [i \in 1..n |-> i]

\* With a window of 16 and matches of up to 8: every short text of two bytes,
\* and texts over three windows whose matches reach back over the backlog,
\* overlap what they put out, and come to nothing.
Texts ==
    UNION {[1..n -> {0, 255}] : n \in 0..4} \cup
    {Repeat(<<0>>, 40), Repeat(Count(13), 52), Repeat(Count(15), 50), Count(34),
     Repeat(<<0, 0, 0, 255, 255, 0, 255>>, 45) \o Repeat(Count(5), 9)}

Job(text, files, comp, level) ==
    [text |-> text, w |-> 4, l |-> 3, files |-> files, comp |-> comp, level |-> level,
     names |-> {}]
PipeJobs == {Job(text, <<>>, 0, -1) : text \in Texts}

\* An image of five files: a short name, a compressible file longer than two
\* windows, an empty one, one for gzip, and one of a single byte repeated.
File(name, data, zipped) == [name |-> name, data |-> data, zipped |-> zipped]
Files(zipped) ==
    << File(<<46, 47, 97>>, Count(5), NULL),
       File(<<47, 98, 98, 98>>, Repeat(<<0, 0, 0, 7, 7, 0, 9>>, 70) \o Count(9), NULL),
       File(<<99>>, <<>>, NULL),
       File(<<100, 101>>, Repeat(Count(4), 22), zipped),
       File(<<102>>, Repeat(<<8>>, 64), NULL) >>

ImageJobs ==
    {[Job(<<>>, Files(zipped), comp, level) EXCEPT
        !.names = {<<97>>, <<47, 47, 98, 98, 98>>, <<99>>, <<100, 101>>, <<102>>, <<120>>}] :
       zipped \in {NULL, Count(6), Count(30)}, comp \in {0, 1}, level \in {1, 3, -1}}

MCJobs == PipeJobs \cup ImageJobs
MCReadLens == {1, 7, 64}
=============================================================================
