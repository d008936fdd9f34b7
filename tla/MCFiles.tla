-------------------------------- MODULE MCFiles --------------------------------
(* Small trees of files for Files.                                         *)
EXTENDS GoodFiles

K(w) == << Lexeme("keyword", w, 0) >>
I(w) == << Lexeme("id", w, 0) >>
M(c) == << Lexeme(c, c, 0) >>
Imp(names) == K("import") \o M("quote") \o FlattenSeq([i \in DOMAIN names |-> I(names[i])]) \o M("quote")
OpenMark == << Lexeme("slash", "/", 0), Lexeme("star", "*", 0) >>
CloseMark == << Lexeme("star", "*", 0), Lexeme("slash", "/", 0) >>
Comment(text) == OpenMark \o text \o CloseMark

MCDeclarations == {"d1", "d2", "d3", "d4"}
MCDirectories == {<< >>, << "w" >>, << "w", "s" >>, << "l" >>, << "l", "b" >>}
Up == Imp(<< "..", "a" >>)

MainTexts ==
  {I("d1"),
   Imp(<< "a" >>) \o I("d1") \o I("e"),
   I("d1") \o Imp(<< "s", "a" >>) \o Imp(<< "a" >>) \o I("e"),
   Imp(<< "b" >>) \o I("e"),
   Comment(Comment(Imp(<< "b" >>)) \o Imp(<< "a" >>)) \o I("e"),
   OpenMark \o I("d1"), M("quote") \o I("d1"), I("d1") \o M("other"),
   << Lexeme("int", "9", 9) >>, I("d1") \o << Lexeme("int", "7", 7) >>,
   I("d1") \o M("metavar") \o Imp(<< "a" >>), I("d1") \o M("rid"), Imp(<< "c" >>) \o OpenMark,
   Imp(<< "a" >>) \o I("e") \o M("other"), Imp(<< "s", "a" >>) \o I("e") \o I("d1")}
ATexts ==
  {I("d2"), Imp(<< "s", "a" >>) \o I("d2"), I("d2") \o Imp(<< "b" >>), Imp(<< "a" >>),
   Imp(<< "m" >>), I("e"), I("d2") \o K("import"), M("metavar"), I("d2") \o CloseMark}
SubTexts == {I("d3"), Imp(<< "a" >>), I("d3") \o Up, Imp(<< "b" >>) \o I("d3")}
LibTexts == {I("d4"), Imp(<< "a" >>) \o I("d4")}

MCFileSystems ==
  {(<< "w", "m" >> :> m) @@ (<< "w", "a" >> :> t) @@ (<< "w", "s", "a" >> :> u)
   @@ (<< "l", "b", "b" >> :> v) @@ (<< "l", "c" >> :> I("d4")) :
     m \in MainTexts, t \in ATexts, u \in SubTexts, v \in LibTexts}

MCCwd == << "w" >>
MCSearchDirs == {<< "l" >>}
MCMains == {Relative(<< "m" >>), Relative(<< "s", "a" >>), Relative(<< "z" >>)}
MCPreludes == {Relative(<< "a" >>), Relative(<< "p" >>)}
=============================================================================
