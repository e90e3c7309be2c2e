----------------------------- MODULE GLCorePatch -----------------------------
(***************************************************************************)
(* Old versions of the game draw without vertex arrays, which desktop      *)
(* OpenGL requires (gl_core_patch.cpp).  The patch gives each program a    *)
(* vertex array when it is linked, binds it when the program is used, and  *)
(* binds the buffers again that the game bound last, since the binding of  *)
(* the elements belongs to the vertex array.                               *)
(*                                                                         *)
(* OpenGL is external: the vertex array and the array buffer that are      *)
(* bound, the element buffer of each vertex array, and that a buffer that  *)
(* is deleted is unbound.  A deletion does not pass through the patch.     *)
(***************************************************************************)
EXTENDS Naturals

CONSTANTS
  Programs, Buffers,
  MaxLinks            (* bound: links, so vertex arrays                      *)

Targets == {"array", "elements"}
NoBuffer == "none"

VARIABLES
  vaoMap,             (* vertex array of each program; 0: not linked yet     *)
  buffers,            (* GLCorePatch::buffers: what the game bound last      *)
  program,            (* OpenGL: the program in use                          *)
  vertexArray,        (* OpenGL: the vertex array that is bound              *)
  arrayBuffer,        (* OpenGL: the array buffer that is bound              *)
  elementsOf,         (* OpenGL: the element buffer of each vertex array     *)
  generated,          (* vertex arrays so far                                *)
  linked,             (* a program was linked since the last glUseProgram    *)
  deleted             (* what the game bound last on a target was deleted    *)

glVars == <<program, vertexArray, arrayBuffer, elementsOf, generated>>
vars == <<vaoMap, buffers, glVars, linked, deleted>>

Init ==
  /\ vaoMap = [p \in Programs |-> 0]
  /\ buffers = [t \in Targets |-> NoBuffer]
  /\ program = "none" /\ vertexArray = 0 /\ arrayBuffer = NoBuffer
  /\ elementsOf = [v \in 0..MaxLinks |-> NoBuffer]
  /\ generated = 0 /\ linked = FALSE /\ deleted = {}

glLinkProgram(p) ==
  /\ generated < MaxLinks /\ generated' = generated + 1
  /\ vertexArray' = generated'
  /\ vaoMap' = [vaoMap EXCEPT ![p] = generated']
  /\ linked' = TRUE
  /\ UNCHANGED <<buffers, program, arrayBuffer, elementsOf, deleted>>

(* Mutant: the buffers are not bound again.                                 *)
UseProgramOnly(p) ==
  /\ vaoMap[p] # 0 /\ program' = p
  /\ vertexArray' = vaoMap[p] /\ linked' = FALSE
  /\ UNCHANGED <<vaoMap, buffers, arrayBuffer, elementsOf, generated, deleted>>

(* The game uses programs it linked.                                        *)
glUseProgram(p) ==
  /\ vaoMap[p] # 0 /\ program' = p
  /\ vertexArray' = vaoMap[p]
  /\ arrayBuffer' = buffers["array"]
  /\ elementsOf' = [elementsOf EXCEPT ![vaoMap[p]] = buffers["elements"]]
  /\ linked' = FALSE
  /\ UNCHANGED <<vaoMap, buffers, generated, deleted>>

UseNoProgram ==
  /\ program' = "none"
  /\ UNCHANGED <<vaoMap, buffers, vertexArray, arrayBuffer, elementsOf, generated, linked, deleted>>

Bind(target, b) ==
  IF target = "array"
  THEN arrayBuffer' = b /\ UNCHANGED elementsOf
  ELSE elementsOf' = [elementsOf EXCEPT ![vertexArray] = b] /\ UNCHANGED arrayBuffer

glBindBuffer(target, b) ==
  /\ Bind(target, b)
  /\ buffers' = [buffers EXCEPT ![target] = b]
  /\ deleted' = deleted \ {target}
  /\ UNCHANGED <<vaoMap, program, vertexArray, generated, linked>>

(* External: only the vertex array that is bound forgets the buffer.        *)
glDeleteBuffers(b) ==
  /\ arrayBuffer' = IF arrayBuffer = b THEN NoBuffer ELSE arrayBuffer
  /\ elementsOf' = [elementsOf EXCEPT ![vertexArray] = IF @ = b THEN NoBuffer ELSE @]
  /\ deleted' = deleted \cup {t \in Targets : buffers[t] = b}
  /\ UNCHANGED <<vaoMap, buffers, program, vertexArray, generated, linked>>

Next ==
  \/ \E p \in Programs : glLinkProgram(p) \/ glUseProgram(p)
  \/ UseNoProgram
  \/ \E t \in Targets, b \in Buffers : glBindBuffer(t, b)
  \/ \E b \in Buffers : glDeleteBuffers(b)

Spec == Init /\ [][Next]_vars

-----------------------------------------------------------------------------
(* The values of the variables.                                             *)
TypeOK ==
  /\ vaoMap \in [Programs -> 0..MaxLinks]
  /\ buffers \in [Targets -> Buffers \cup {NoBuffer}]
  /\ program \in Programs \cup {"none"} /\ vertexArray \in 0..generated
  /\ arrayBuffer \in Buffers \cup {NoBuffer}
  /\ elementsOf \in [0..MaxLinks -> Buffers \cup {NoBuffer}]
  /\ generated \in 0..MaxLinks /\ linked \in BOOLEAN /\ deleted \subseteq Targets

(* The game draws with the vertex array of the program it uses and, though  *)
(* every vertex array has an element buffer of its own, with the buffers it *)
(* bound last, as it would without vertex arrays.  Two exceptions: after a  *)
(* link the new vertex array stays bound until the next glUseProgram, and a *)
(* buffer that was deleted is bound again by the next one.                  *)
DrawsAsBound ==
  program # "none" /\ ~linked =>
    /\ vertexArray = vaoMap[program]
    /\ "array" \in deleted \/ arrayBuffer = buffers["array"]
    /\ "elements" \in deleted \/ elementsOf[vertexArray] = buffers["elements"]
=============================================================================
