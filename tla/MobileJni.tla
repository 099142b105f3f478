------------------------------ MODULE MobileJni ------------------------------
(***************************************************************************)
(* The JNI side of the native boundary, src/src/mobile_ffi/jni.rs: a Java  *)
(* thread calls native methods, whose operations call Java again, and      *)
(* guard turns errors and panics into a Java exception and error_return.   *)
(* The panic boundaries are those of MobileFfi: a panic becomes an error.  *)
(***************************************************************************)
EXTENDS Naturals, Sequences

CONSTANTS
  MaxCalls,       \* bounds: native calls inside each other, and exceptions thrown
  MaxExceptions,
  Nothing

ASSUME MobileJniAssumption == MaxCalls \in Nat \ {0} /\ MaxExceptions \in Nat

VARIABLES
  calls,      \* the native calls the thread is inside
  exception,  \* the pending Java exception
  thrown,     \* exceptions so far
  returned    \* how the last native call returned

jniVars == <<calls, exception, thrown, returned>>

Statuses == {"invalid_argument", "invalid_handle", "resource_exhausted", "internal", "panic"}

Class(status) ==
  CASE status = "invalid_argument" -> "IllegalArgumentException"
    [] status = "invalid_handle" -> "IllegalStateException"
    [] status = "resource_exhausted" -> "OutOfMemoryError"
    [] OTHER -> "RuntimeException"

JniInit == calls = <<>> /\ exception = Nothing /\ thrown = 0 /\ returned = Nothing

-----------------------------------------------------------------------------
\* The innermost call: where it is, whether its fallback was taken, what it returns;
\* and as history which exception was pending when it began and when it had failed.

Call == calls[Len(calls)]
At(step) == calls # <<>> /\ Call.at = step
Moves(call) == calls' = [calls EXCEPT ![Len(calls)] = call]
Steps(step) == Moves([Call EXCEPT !.at = step])
Fails(status) == Moves([Call EXCEPT !.at = "failed", !.status = status])

\* The virtual machine throws an exception of a class, which is then pending.
Throws(class) ==
  /\ thrown < MaxExceptions /\ thrown' = thrown + 1
  /\ exception' = [number |-> thrown + 1, class |-> class]

\* Java runs while nothing is pending; an operation may call the native method anyhow.
CallNative ==
  /\ Len(calls) < MaxCalls /\ (calls = <<>> \/ At("operation"))
  /\ calls' = Append(calls, [at |-> "attach", fallback |-> TRUE, value |-> Nothing, status |-> Nothing,
                             before |-> exception, met |-> Nothing, ran |-> FALSE])
  /\ UNCHANGED <<exception, thrown, returned>>

\* with_env fails or panics before the operation (on_internal_jni_error, on_panic).
Attach ==
  /\ At("attach")
  /\ \/ Steps("check")
     \/ Moves([Call EXCEPT !.at = "return", !.value = "error_return", !.fallback = FALSE])
     \/ Fails("panic")
  /\ UNCHANGED <<exception, thrown, returned>>

CheckException ==
  /\ At("check")
  /\ IF exception # Nothing THEN Fails("internal")
     ELSE Moves([Call EXCEPT !.at = "operation", !.ran = TRUE])
  /\ UNCHANGED <<exception, thrown, returned>>

-----------------------------------------------------------------------------
\* The operation.

\* A string of the host: null, with more units or bytes than the limit allows, with an
\* unpaired surrogate, or well-formed.  length and toCharArray are calls into Java,
\* which may throw and are refused while something is pending.
Strings == {"null", "long", "wide", "unpaired", "text"}

\* read_string returns an error, which the operation returns, or the text.
ReadString(string) ==
  /\ At("operation")
  /\ \/ /\ string = "text" /\ exception = Nothing /\ UNCHANGED <<calls, exception, thrown>>
     \/ /\ string # "text" \/ exception # Nothing
        /\ Fails("invalid_argument") /\ UNCHANGED <<exception, thrown>>
     \/ /\ string # "null" /\ exception = Nothing
        /\ Throws("OutOfMemoryError") \/ UNCHANGED <<exception, thrown>>
        /\ \E status \in {"invalid_argument", "resource_exhausted", "internal"} : Fails(status)
  /\ UNCHANGED returned

\* new_string: too much output, or the virtual machine has no memory.
NewString ==
  /\ At("operation")
  /\ \/ Fails("resource_exhausted") /\ UNCHANGED <<exception, thrown>>
     \/ exception = Nothing /\ Throws("OutOfMemoryError") /\ Fails("resource_exhausted")
  /\ UNCHANGED returned

\* Product work calls Java or clears what is pending, returns, fails or panics.
CallJava ==
  /\ At("operation") /\ exception = Nothing
  /\ Throws("RuntimeException") /\ UNCHANGED <<calls, returned>>

ClearException ==
  /\ At("operation")
  /\ exception' = Nothing /\ UNCHANGED <<calls, thrown, returned>>

OperationReturns ==
  /\ At("operation")
  /\ Moves([Call EXCEPT !.at = "return", !.value = "value", !.met = exception])
  /\ UNCHANGED <<exception, thrown, returned>>

OperationFails(status) ==
  /\ At("operation")
  /\ Fails(status) /\ UNCHANGED <<exception, thrown, returned>>

-----------------------------------------------------------------------------
\* on_error.

\* Faulty variant: the exception of the error replaces what is pending.
Replaced == FALSE
Pending == exception # Nothing

\* A pending exception wins.  Else throw_new throws, something else comes up instead,
\* or it panics (on_internal_panic).
OnError ==
  /\ At("failed")
  /\ \/ Pending /\ UNCHANGED <<exception, thrown>>
     \/ ~Pending /\ (Throws(Class(Call.status)) \/ Throws("NoClassDefFoundError"))
     \/ ~Pending /\ UNCHANGED <<exception, thrown>>
  /\ Moves([Call EXCEPT !.met = exception, !.at = "resolved"])
  /\ UNCHANGED returned

\* fallback.take().unwrap_or_default().
TakeFallback ==
  /\ At("resolved")
  /\ Moves([Call EXCEPT !.at = "return", !.fallback = FALSE,
                        !.value = IF Call.fallback THEN "error_return" ELSE "default"])
  /\ UNCHANGED <<exception, thrown, returned>>

\* The native method returns to the operation around it, or to Java, which takes the
\* exception.
ReturnNative ==
  /\ At("return")
  /\ returned' = [call |-> Call, exception |-> exception]
  /\ calls' = SubSeq(calls, 1, Len(calls) - 1)
  /\ exception' = IF Len(calls) = 1 THEN Nothing ELSE exception
  /\ UNCHANGED thrown

JniNext ==
  \/ CallNative \/ Attach \/ CheckException \/ OnError \/ TakeFallback \/ ReturnNative
  \/ \E string \in Strings : ReadString(string)
  \/ NewString \/ CallJava \/ ClearException \/ OperationReturns
  \/ \E status \in Statuses : OperationFails(status)

JniSpec == JniInit /\ [][JniNext]_jniVars

-----------------------------------------------------------------------------
\* Properties.

\* However native calls are nested and whatever is thrown in them, guard never lets an
\* error pass for a success: only an operation that ran and returned gives its value,
\* and error_return is never lost to a default.  The first exception is the one Java
\* sees: what was pending when an operation had failed stays, and while something is
\* pending no operation runs and clears it ("an existing Java exception wins").
ErrorsLookLikeErrors ==
  returned # Nothing => LET call == returned.call IN
    /\ call.value \in {"value", "error_return"}
    /\ call.value = "value" => call.ran /\ call.status = Nothing
    /\ call.met # Nothing => returned.exception = call.met
    /\ call.before # Nothing => ~call.ran /\ returned.exception = call.before
=============================================================================
