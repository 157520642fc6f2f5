---- MODULE MCOutsideInput ----
(* OutsideInput for documents of up to MAX_TEXT numbered letters and marks, *)
(* and for questions with two keys in several spellings.                    *)
EXTENDS OutsideInputProperties

MCLetters == 1..MAX_TEXT
MCQuestion == <<"k1", 1>>
MCQueries == {<<"k1", 2>>, <<"k2", 1>>, <<"k2", 2>>}
====
