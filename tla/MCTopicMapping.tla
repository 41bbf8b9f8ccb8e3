---------------------------- MODULE MCTopicMapping ----------------------------
(* Instances of the topic mapping for TLC: levels of up to two characters, with
   and without names, so that names fall short of the cut, meet it and pass it. *)
EXTENDS TopicMappingProperties

Letters == {"a", Dot}
Alphabet == Letters \cup {"p"}

Levels == BoundedSeq(Letters, 2)
UpToFourLevels == BoundedSeq(Levels, 4) \ {<< >>}

Prefix == <<"p">>
=============================================================================
