----------------------------- MODULE ApiTables -----------------------------
(***************************************************************************)
(* The tables of api.rs: which exports are taken for which API, how many   *)
(* words of arguments a 32-bit call takes off the stack, and how many      *)
(* arguments the thunk reads.  Beside them, what the functions are declared *)
(* to take, in the headers of Windows and of its C runtime.                *)
(*                                                                         *)
(* The A and the W form of a name are one where both are known.  Left out  *)
(* are the APIs that never return to their caller: the end of a thread or  *)
(* of the process by TerminateProcess or exit, and RaiseException.         *)
(***************************************************************************)
EXTENDS Integers, FiniteSets, TLC

\* The function that is n for every name.
Of(n, names) == [a \in names |-> n]

(***************************************************************************)
(* classify: the names that are taken for another API.  Every other name   *)
(* is an API of its own.                                                   *)
(***************************************************************************)
ClassifiedKernel ==
    Of("CreateThread", {"_beginthreadex"})
    @@ Of("EhProlog", {"_EH_prolog", "__EH_prolog"})
    @@ Of("EncodeDecodePointer", {"DecodePointer", "DecodeSystemPointer", "EncodePointer",
        "EncodeSystemPointer", "RtlDecodePointer", "RtlEncodePointer"})
    @@ Of("Fputc", {"fputc", "putc", "putchar"})
    @@ Of("GetMainArgs", {"__getmainargs", "__wgetmainargs"})
    @@ Of("GetSystemTime", {"GetLocalTime"})
    @@ Of("GetSystemTimeAsFileTime", {"GetSystemTimePreciseAsFileTime"})
    @@ Of("GetTickCount", {"GetTickCount64"})
    @@ Of("Initterm", {"_initterm", "_initterm_e"})
    @@ Of("Memcpy", {"memcpy", "memmove"})
    @@ Of("TlsFree", {"FlsFree"})
    @@ Of("TlsGetValue", {"FlsGetValue"})
    @@ Of("TlsSetValue", {"FlsSetValue"})
ClassifiedFilesAndWindows ==
    Of("CoCreateInstance", {"CoGetClassObject"})
    @@ Of("CreateDialogParam", {"DialogBoxParam"})
    @@ Of("CreatePen", {"CreatePenIndirect"})
    @@ Of("CrtNoop", {"_XcptFilter", "__C_specific_handler", "__dllonexit", "__set_app_type",
        "__setusermatherr", "_amsg_exit", "_configthreadlocale", "_configure_narrow_argv",
        "_controlfp", "_controlfp_s", "_get_fmode", "_get_initial_narrow_environment",
        "_initialize_narrow_environment", "_lock", "_onexit", "_set_app_type", "_set_fmode",
        "_set_new_mode", "_setmode", "_unlock", "atexit", "setlocale", "signal"})
    @@ Of("GetDC", {"GetWindowDC"})
    @@ Of("GetKeyState", {"GetAsyncKeyState"})
    @@ Of("GetWindowsDirectory", {"GetSystemWindowsDirectory"})
    @@ Of("GlobalAlloc", {"LocalAlloc"})
    @@ Of("GlobalFreeUnlock", {"GlobalFree", "GlobalUnlock", "LocalFree", "LocalUnlock"})
    @@ Of("GlobalLock", {"GlobalHandle", "LocalLock"})
    @@ Of("GlobalReAlloc", {"LocalReAlloc"})
    @@ Of("RegisterClass", {"RegisterClassEx"})
ClassifiedRest ==
    Of("OpenSync", {"OpenEvent", "OpenMutex", "OpenSemaphore", "OpenWaitableTimer"})
    @@ Of("RegCreate", {"RegCreateKey", "RegCreateKeyEx"})
    @@ Of("RegDeleteKey", {"RegDeleteKeyEx"})
    @@ Of("RegOpen", {"RegOpenKey", "RegOpenKeyEx"})
    @@ Of("SetPixel", {"SetPixelV"})
Classified == ClassifiedKernel @@ ClassifiedFilesAndWindows @@ ClassifiedRest
Classify(name) == IF name \in DOMAIN Classified THEN Classified[name] ELSE name

(***************************************************************************)
(* Api::argc and win32_argc: the words a 32-bit thunk takes off the stack. *)
(* An API in neither table takes none.                                     *)
(***************************************************************************)
argc ==
    Of(1, {"CharNext", "CloseHandle", "CreateFontIndirect", "CreateSolidBrush", "DeleteFile",
        "DestroyWindow", "DisableThreadLibraryCalls", "DispatchMessage", "EncodeDecodePointer",
        "ExitProcess", "FindClose", "FlsAlloc", "FreeEnvironmentStrings", "FreeLibrary",
        "GetCursorPos", "GetDC", "GetFileAttributes", "GetKeyState", "GetModuleHandle",
        "GetStartupInfo", "GetStdHandle", "GetStockObject", "GetSystemTime",
        "GetSystemTimeAsFileTime", "GetVersionEx", "GlobalFreeUnlock", "GlobalLock", "IsWindow",
        "LoadLibrary", "PostQuitMessage", "PulseEvent", "QueryPerformanceCounter",
        "QueryPerformanceFrequency", "RegCloseKey", "RegisterClass", "ReleaseMutex", "ResetEvent",
        "ResumeThread", "SaveDC", "SetCapture", "SetConsoleCP", "SetConsoleOutputCP", "SetEvent",
        "SetFocus", "SetLastError", "SetUnhandledExceptionFilter", "Sleep", "SuspendThread",
        "TlsFree", "TlsGetValue", "TranslateMessage", "UnhandledExceptionFilter", "lstrlen"})
    @@ Of(2, {"BeginPaint", "CharPrev", "CreateDirectory", "EndDialog", "EndPaint", "FindFirstFile",
        "FindNextFile", "GetClientRect", "GetConsoleMode", "GetDlgItem", "GetExitCodeProcess",
        "GetExitCodeThread", "GetFileSize", "GetProcAddress", "GetProp", "GetSystemDirectory",
        "GetTempPath", "GetWindowLong", "GetWindowLongPtr", "GetWindowRect", "GetWindowText",
        "GetWindowsDirectory", "GlobalAlloc", "IsDialogMessage", "MoveFile", "RegDeleteKey",
        "RegDeleteValue", "ReleaseDC", "RemoveProp", "RestoreDC", "SelectObject", "SetBkColor",
        "SetBkMode", "SetConsoleMode", "SetEnvironmentVariable", "SetTextColor", "SetWindowText",
        "ShowWindow", "SleepEx", "TerminateThread", "TlsSetValue", "ValidateRect",
        "WaitForSingleObject", "lstrcat", "lstrcmp", "lstrcmpi", "lstrcpy"})
    @@ Of(3, {"CopyFile", "CreateMutex", "CreatePen", "CreateWaitableTimer",
        "ExpandEnvironmentStrings", "FillRect", "GetClassName", "GetEnvironmentVariable",
        "GetModuleFileName", "GetObject", "GetUpdateRect", "GlobalReAlloc", "HeapAlloc", "HeapFree",
        "InvalidateRect", "LineTo", "LoadLibraryEx", "MoveFileEx", "OpenSync", "ReleaseSemaphore",
        "SetDlgItemText", "SetProp", "SetWindowLong", "SetWindowLongPtr", "VirtualFree",
        "VirtualQuery", "WaitForSingleObjectEx", "lstrcpyn"})
    @@ Of(4, {"CreateEvent", "CreateEventEx", "CreateMutexEx", "CreateSemaphore",
        "CreateWaitableTimerEx", "DefWindowProc", "GetDlgItemText", "GetFullPathName", "GetMessage",
        "GetTempFileName", "HeapReAlloc", "MessageBox", "MoveToEx", "PostMessage",
        "PostThreadMessage", "SendMessage", "SetFilePointer", "SetFileTime", "SetPixel",
        "VirtualAlloc", "VirtualProtect", "WaitForMultipleObjects"})
    @@ Of(5, {"CoCreateInstance", "CreateDialogParam", "GetUserObjectInformation", "PeekMessage",
        "ReadFile", "Rectangle", "RegOpen", "TextOut", "WaitForMultipleObjectsEx", "WriteConsole",
        "WriteFile"})
    @@ Of(6, {"CreateSemaphoreEx", "CreateThread", "FindFirstFileEx", "MoveWindow",
        "MultiByteToWideChar", "RegQueryValueEx", "RegSetValueEx"})
    @@ Of(7, {"CreateFile", "SetWindowPos"})
    @@ Of(8, {"RegEnumKeyEx", "RegEnumValue", "WideCharToMultiByte"})
    @@ Of(9, {"RegCreate"})
    @@ Of(10, {"CreateProcess"})
    @@ Of(12, {"CreateWindowEx", "RegQueryInfoKey"})
\* The stubs, that do nothing for the guest.
win32_argc ==
    Of(0, {"CloseClipboard", "CreatePopupMenu", "EmptyClipboard", "GetActiveWindow",
        "GetConsoleWindow", "GetCurrentThread", "GetDesktopWindow", "GetForegroundWindow",
        "GetMessagePos", "GetModuleHandleExW", "GetProcessWindowStation", "GetShellWindow",
        "LoadIconW", "OleUninitialize", "RegFlushKey", "SetConsoleTitleA", "UpdateWindow"})
    @@ Of(1, {"AddRefActCtx", "CoTaskMemFree", "CreateActCtxA", "CreateActCtxW",
        "CreateBrushIndirect", "DeleteCriticalSection", "DeleteObject", "EnterCriticalSection",
        "FlushConsoleInputBuffer", "GetCurrentActCtx", "GetSysColor", "GetSystemMetrics",
        "GetThreadDesktop", "HeapDestroy", "ImageList_Destroy", "InitializeCriticalSection",
        "InitializeSListHead", "IsWindowEnabled", "IsWindowVisible", "LeaveCriticalSection",
        "LoadCursorA", "LoadIconA", "MessageBoxIndirectW", "OleInitialize", "OpenClipboard",
        "ReleaseActCtx", "RemoveDirectoryW", "SHBrowseForFolderW", "SHFileOperationW",
        "SetConsoleTitleW", "SetCurrentDirectoryW", "SetCursor", "SetDefaultDllDirectories",
        "SetDllDirectoryA", "SetDllDirectoryW", "SetErrorMode", "SetForegroundWindow",
        "SetHandleCount", "TryEnterCriticalSection", "ZombifyActCtx"})
    @@ Of(2, {"ActivateActCtx", "CompareFileTime", "DeactivateActCtx", "EnableWindow",
        "ExitWindowsEx", "GetDeviceCaps", "GetSystemMenu", "HeapCompact",
        "InitializeCriticalSectionAndSpinCount", "LoadBitmapW", "LoadCursorW",
        "RegNotifyChangeKeyValue", "SHGetPathFromIDListW", "ScreenToClient", "SetClipboardData",
        "SetConsoleCtrlHandler", "SetCriticalSectionSpinCount", "SetFileAttributesW",
        "SetThreadPriority"})
    @@ Of(3, {"CheckDlgButton", "EnableMenuItem", "GetClassInfoW", "GetShortPathNameW",
        "HeapCreate", "HeapValidate", "ImageList_AddMasked", "InitializeCriticalSectionEx",
        "LookupPrivilegeValueW", "MulDiv", "OpenInputDesktopW", "OpenProcessToken",
        "SHGetSpecialFolderLocation", "SetClassLongW", "SetFileSecurityW"})
    @@ Of(4, {"AppendMenuW", "DrawTextW", "FindWindowExW", "HeapSetInformation", "MapWindowPoints",
        "OpenDesktopW", "RegEnumKeyW", "SetTimer", "SystemParametersInfoW",
        "WritePrivateProfileStringW"})
    @@ Of(5, {"CallWindowProcW", "FindActCtxSectionGuidW", "FindActCtxSectionStringA",
        "FindActCtxSectionStringW", "GetDiskFreeSpaceW", "ImageList_Create", "SHGetFileInfoW"})
    @@ Of(6, {"AdjustTokenPrivileges", "GetPrivateProfileStringW", "LoadImageA", "LoadImageW",
        "SearchPathW", "ShellExecuteW"})
    @@ Of(7, {"QueryActCtxW", "RegGetValueW", "SendMessageTimeoutW", "TrackPopupMenu"})
Argc(api) ==
    IF api \in DOMAIN argc THEN argc[api] ELSE IF api \in DOMAIN win32_argc THEN win32_argc[api] ELSE 0

(***************************************************************************)
(* dispatch: the arguments a thunk may read are the first ReadsOf(api).      *)
(***************************************************************************)
ReadsOfProcess ==
    Of(1, {"ExitProcess", "GetModuleHandle", "GetStdHandle", "LoadLibrary", "LoadLibraryEx"})
    @@ Of(3, {"HeapAlloc", "HeapFree"})
    @@ Of(4, {"HeapReAlloc", "WriteConsole", "WriteFile"})
ReadsOfSystem ==
    Of(1, {"EncodeDecodePointer", "GetSystemTime", "GetSystemTimeAsFileTime", "IsWindow",
        "PulseEvent", "QueryPerformanceCounter", "QueryPerformanceFrequency", "ReleaseMutex",
        "ResetEvent", "ResumeThread", "RtlCaptureContext", "SetEvent", "SetLastError",
        "SetUnhandledExceptionFilter", "Sleep", "SleepEx", "SuspendThread", "TranslateMessage"})
    @@ Of(2, {"GetExitCodeProcess", "GetExitCodeThread", "GetProp", "GetWindowLong",
        "GetWindowLongPtr", "GetWindowRect", "RemoveProp", "RtlLookupFunctionEntry",
        "RtlPcToFileHeader", "ShowWindow", "TerminateThread", "VirtualQuery", "WaitForSingleObject",
        "WaitForSingleObjectEx"})
    @@ Of(3, {"CreateEventEx", "CreateMutex", "CreateMutexEx", "CreateWaitableTimer",
        "CreateWaitableTimerEx", "GetClassName", "OpenSync", "ReleaseSemaphore", "SetProp",
        "SetWindowLong", "SetWindowLongPtr", "VirtualFree"})
    @@ Of(4, {"CreateEvent", "CreateSemaphore", "CreateSemaphoreEx", "LdrGetDllHandle",
        "LdrLoadDll", "PostMessage", "PostThreadMessage", "VirtualAlloc", "VirtualProtect",
        "WaitForMultipleObjects", "WaitForMultipleObjectsEx"})
    @@ Of(6, {"CreateThread"})
    @@ Of(7, {"RtlVirtualUnwind"})
    @@ Of(10, {"CreateProcess"})
ReadsOfEnvironment ==
    Of(1, {"GetStartupInfo"})
    @@ Of(2, {"GetConsoleMode", "SetEnvironmentVariable"})
    @@ Of(3, {"ExpandEnvironmentStrings", "GetEnvironmentVariable"})
ReadsOfText ==
    Of(1, {"DisableThreadLibraryCalls", "FreeLibrary", "TlsFree", "TlsGetValue"})
    @@ Of(2, {"GetProcAddress", "TlsSetValue"})
    @@ Of(6, {"MultiByteToWideChar"})
    @@ Of(8, {"WideCharToMultiByte"})
ReadsOfCrt ==
    Of(1, {"malloc", "strlen"})
    @@ Of(2, {"Initterm", "calloc", "realloc"})
    @@ Of(3, {"GetMainArgs", "Memcpy", "memcmp", "memset"})
ReadsOfDialogs ==
    Of(1, {"GetMessage"})
    @@ Of(2, {"GetDlgItem", "SetWindowText"})
    @@ Of(3, {"GetWindowText", "SetDlgItemText"})
    @@ Of(4, {"GetDlgItemText"})
    @@ Of(5, {"CreateDialogParam", "PeekMessage"})
ReadsOfWindows ==
    Of(1, {"CreateFontIndirect", "CreateSolidBrush", "DispatchMessage", "GetCursorPos", "GetDC",
        "GetKeyState", "PostQuitMessage", "RegisterClass", "SetCapture", "SetFocus",
        "ValidateRect"})
    @@ Of(2, {"BeginPaint", "DefWindowProc", "EndDialog", "GetClientRect", "GetUpdateRect",
        "InvalidateRect", "SetTextColor"})
    @@ Of(3, {"CreatePen", "FillRect", "GetObject"})
    @@ Of(5, {"CoCreateInstance", "Rectangle", "TextOut"})
    @@ Of(6, {"MoveWindow"})
    @@ Of(7, {"SetWindowPos"})
    @@ Of(12, {"CreateWindowEx"})
ReadsOfRegistry ==
    Of(1, {"GetStockObject", "RegCloseKey"})
    @@ Of(2, {"RegDeleteKey", "RegDeleteValue", "RestoreDC", "SelectObject", "SetBkColor",
        "SetBkMode", "wsprintf"})
    @@ Of(3, {"LineTo", "MessageBox", "MoveToEx"})
    @@ Of(4, {"SendMessage", "SetPixel"})
    @@ Of(5, {"GetUserObjectInformation", "RegOpen"})
    @@ Of(6, {"RegQueryValueEx", "RegSetValueEx"})
    @@ Of(8, {"RegEnumKeyEx", "RegEnumValue"})
    @@ Of(9, {"RegCreate"})
    @@ Of(12, {"RegQueryInfoKey"})
ReadsOfStrings ==
    Of(1, {"CharNext", "CloseHandle", "CreateDirectory", "Fputc", "fputs", "lstrlen", "puts"})
    @@ Of(2, {"CharPrev", "lstrcat", "lstrcmp", "lstrcmpi", "lstrcpy"})
    @@ Of(3, {"fwrite", "lstrcpyn"})
    @@ Of(4, {"ReadFile"})
    @@ Of(5, {"CreateFile"})
ReadsOfFiles ==
    Of(1, {"DeleteFile", "FindClose", "GetFileAttributes", "GetVersionEx", "GlobalLock"})
    @@ Of(2, {"FindFirstFile", "FindNextFile", "GetFileSize", "GetSystemDirectory", "GetTempPath",
        "GetWindowsDirectory", "GlobalAlloc", "GlobalReAlloc", "MoveFile", "MoveFileEx"})
    @@ Of(3, {"CopyFile", "FindFirstFileEx", "GetModuleFileName"})
    @@ Of(4, {"GetFullPathName", "GetTempFileName", "SetFilePointer"})
reads == ReadsOfProcess @@ ReadsOfSystem @@ ReadsOfEnvironment @@ ReadsOfText
         @@ ReadsOfCrt @@ ReadsOfDialogs @@ ReadsOfWindows @@ ReadsOfRegistry
         @@ ReadsOfStrings @@ ReadsOfFiles
ReadsOf(api) == IF api \in DOMAIN reads THEN reads[api] ELSE 0

\* wsprintf reads one argument for each conversion it knows.
WsprintfReads(fmt) ==
    2 + Cardinality({i \in DOMAIN fmt : fmt[i] \in {"d", "i", "u", "x", "X", "p", "c", "s", "S"}})

(***************************************************************************)
(* The declarations of Windows: how many arguments a function takes; the   *)
(* functions of the C runtime leave them on the stack.                     *)
(***************************************************************************)
Stdcall ==
    Of(0, {"CloseClipboard", "CreatePopupMenu", "EmptyClipboard", "GetACP", "GetActiveWindow",
        "GetCapture", "GetCommandLine", "GetConsoleWindow", "GetCurrentProcess",
        "GetCurrentProcessId", "GetCurrentThread", "GetCurrentThreadId", "GetDesktopWindow",
        "GetEnvironmentStrings", "GetFocus", "GetForegroundWindow", "GetLastError", "GetMessagePos",
        "GetProcessHeap", "GetProcessWindowStation", "GetShellWindow", "GetTickCount",
        "GetTickCount64", "GetVersion", "IsDebuggerPresent", "OleUninitialize", "ReleaseCapture",
        "SwitchToThread", "TlsAlloc"})
    @@ Of(1, {"AddRefActCtx", "CharNext", "CloseHandle", "CoTaskMemFree", "CreateActCtxA",
        "CreateActCtxW", "CreateBrushIndirect", "CreateFontIndirect", "CreatePenIndirect",
        "CreateSolidBrush", "DecodePointer", "DecodeSystemPointer", "DeleteCriticalSection",
        "DeleteFile", "DeleteObject", "DestroyWindow", "DisableThreadLibraryCalls",
        "DispatchMessage", "EncodePointer", "EncodeSystemPointer", "EnterCriticalSection",
        "ExitProcess", "FindClose", "FlsAlloc", "FlsFree", "FlsGetValue", "FlushConsoleInputBuffer",
        "FreeEnvironmentStrings", "FreeLibrary", "GetAsyncKeyState", "GetCurrentActCtx",
        "GetCursorPos", "GetDC", "GetFileAttributes", "GetKeyState", "GetLocalTime",
        "GetModuleHandle", "GetStartupInfo", "GetStdHandle", "GetStockObject", "GetSysColor",
        "GetSystemMetrics", "GetSystemTime", "GetSystemTimeAsFileTime",
        "GetSystemTimePreciseAsFileTime", "GetThreadDesktop", "GetVersionEx", "GetWindowDC",
        "GlobalFree", "GlobalHandle", "GlobalLock", "GlobalUnlock", "HeapDestroy",
        "ImageList_Destroy", "InitializeCriticalSection", "InitializeSListHead", "IsWindow",
        "IsWindowEnabled", "IsWindowVisible", "LeaveCriticalSection", "LoadLibrary", "LocalFree",
        "LocalLock", "LocalUnlock", "MessageBoxIndirectW", "OleInitialize", "OpenClipboard",
        "PostQuitMessage", "PulseEvent", "QueryPerformanceCounter", "QueryPerformanceFrequency",
        "RegCloseKey", "RegFlushKey", "RegisterClass", "RegisterClassEx", "ReleaseActCtx",
        "ReleaseMutex", "RemoveDirectoryW", "ResetEvent", "ResumeThread", "RtlCaptureContext",
        "RtlDecodePointer", "RtlEncodePointer", "SHBrowseForFolderW", "SHFileOperationW", "SaveDC",
        "SetCapture", "SetConsoleCP", "SetConsoleOutputCP", "SetConsoleTitleA", "SetConsoleTitleW",
        "SetCurrentDirectoryW", "SetCursor", "SetDefaultDllDirectories", "SetDllDirectoryA",
        "SetDllDirectoryW", "SetErrorMode", "SetEvent", "SetFocus", "SetForegroundWindow",
        "SetHandleCount", "SetLastError", "SetUnhandledExceptionFilter", "Sleep", "SuspendThread",
        "TlsFree", "TlsGetValue", "TranslateMessage", "TryEnterCriticalSection",
        "UnhandledExceptionFilter", "UpdateWindow", "ZombifyActCtx", "lstrlen"})
    @@ Of(2, {"ActivateActCtx", "BeginPaint", "CharPrev", "CompareFileTime", "CreateDirectory",
        "DeactivateActCtx", "EnableWindow", "EndDialog", "EndPaint", "ExitWindowsEx",
        "FindFirstFile", "FindNextFile", "FlsSetValue", "GetClientRect", "GetConsoleMode",
        "GetDeviceCaps", "GetDlgItem", "GetExitCodeProcess", "GetExitCodeThread", "GetFileSize",
        "GetProcAddress", "GetProp", "GetSystemDirectory", "GetSystemMenu",
        "GetSystemWindowsDirectory", "GetTempPath", "GetWindowLong", "GetWindowLongPtr",
        "GetWindowRect", "GetWindowsDirectory", "GlobalAlloc", "HeapCompact",
        "InitializeCriticalSectionAndSpinCount", "IsDialogMessage", "LoadBitmapW", "LoadCursorA",
        "LoadCursorW", "LoadIconA", "LoadIconW", "LocalAlloc", "MoveFile", "RegDeleteKey",
        "RegDeleteValue", "ReleaseDC", "RemoveProp", "RestoreDC", "RtlPcToFileHeader",
        "SHGetPathFromIDListW", "ScreenToClient", "SelectObject", "SetBkColor", "SetBkMode",
        "SetClipboardData", "SetConsoleCtrlHandler", "SetConsoleMode",
        "SetCriticalSectionSpinCount", "SetEnvironmentVariable", "SetFileAttributesW",
        "SetTextColor", "SetThreadPriority", "SetWindowText", "ShowWindow", "SleepEx",
        "TerminateThread", "TlsSetValue", "ValidateRect", "WaitForSingleObject", "lstrcat",
        "lstrcmp", "lstrcmpi", "lstrcpy"})
    @@ Of(3, {"CheckDlgButton", "CopyFile", "CreateMutex", "CreatePen", "CreateWaitableTimer",
        "EnableMenuItem", "ExpandEnvironmentStrings", "FillRect", "GetClassInfoW", "GetClassName",
        "GetEnvironmentVariable", "GetModuleFileName", "GetModuleHandleExW", "GetObject",
        "GetShortPathNameW", "GetUpdateRect", "GetWindowText", "GlobalReAlloc", "HeapAlloc",
        "HeapCreate", "HeapFree", "HeapValidate", "ImageList_AddMasked",
        "InitializeCriticalSectionEx", "InvalidateRect", "LineTo", "LoadLibraryEx", "LocalReAlloc",
        "LookupPrivilegeValueW", "MoveFileEx", "MulDiv", "OpenEvent", "OpenInputDesktopW",
        "OpenMutex", "OpenProcessToken", "OpenSemaphore", "OpenWaitableTimer", "RegCreateKey",
        "RegOpenKey", "ReleaseSemaphore", "RtlLookupFunctionEntry", "SHGetSpecialFolderLocation",
        "SetClassLongW", "SetDlgItemText", "SetFileSecurityW", "SetProp", "SetWindowLong",
        "SetWindowLongPtr", "VirtualFree", "VirtualQuery", "WaitForSingleObjectEx", "lstrcpyn"})
    @@ Of(4, {"AppendMenuW", "CreateEvent", "CreateEventEx", "CreateMutexEx", "CreateSemaphore",
        "CreateWaitableTimerEx", "DefWindowProc", "FindWindowExW", "GetDlgItemText",
        "GetFullPathName", "GetMessage", "GetTempFileName", "HeapReAlloc", "HeapSetInformation",
        "LdrGetDllHandle", "LdrLoadDll", "MapWindowPoints", "MessageBox", "MoveToEx",
        "OpenDesktopW", "PostMessage", "PostThreadMessage", "RegDeleteKeyEx", "RegEnumKeyW",
        "SendMessage", "SetFilePointer", "SetFileTime", "SetPixel", "SetPixelV", "SetTimer",
        "SystemParametersInfoW", "VirtualAlloc", "VirtualProtect", "WaitForMultipleObjects",
        "WritePrivateProfileStringW"})
    @@ Of(5, {"CallWindowProcW", "CoCreateInstance", "CoGetClassObject", "CreateDialogParam",
        "DialogBoxParam", "DrawTextW", "FindActCtxSectionGuidW", "FindActCtxSectionStringA",
        "FindActCtxSectionStringW", "GetDiskFreeSpaceW", "GetUserObjectInformation",
        "ImageList_Create", "PeekMessage", "ReadFile", "Rectangle", "RegNotifyChangeKeyValue",
        "RegOpenKeyEx", "SHGetFileInfoW", "TextOut", "WaitForMultipleObjectsEx", "WriteConsole",
        "WriteFile"})
    @@ Of(6, {"AdjustTokenPrivileges", "CreateSemaphoreEx", "CreateThread", "FindFirstFileEx",
        "GetPrivateProfileStringW", "LoadImageA", "LoadImageW", "MoveWindow", "MultiByteToWideChar",
        "RegQueryValueEx", "RegSetValueEx", "SearchPathW", "ShellExecuteW"})
    @@ Of(7, {"CreateFile", "QueryActCtxW", "RegGetValueW", "SendMessageTimeoutW", "SetWindowPos",
        "TrackPopupMenu"})
    @@ Of(8, {"RegEnumKeyEx", "RegEnumValue", "RtlVirtualUnwind", "WideCharToMultiByte"})
    @@ Of(9, {"RegCreateKeyEx"})
    @@ Of(10, {"CreateProcess"})
    @@ Of(12, {"CreateWindowEx", "RegQueryInfoKey"})
Cdecl ==
    Of(0, {"_EH_prolog", "__EH_prolog", "_get_initial_narrow_environment",
        "_initialize_narrow_environment"})
    @@ Of(1, {"__set_app_type", "__setusermatherr", "_amsg_exit", "_configthreadlocale",
        "_configure_narrow_argv", "_get_fmode", "_lock", "_onexit", "_set_app_type", "_set_fmode",
        "_set_new_mode", "_unlock", "atexit", "free", "malloc", "putchar", "puts", "strlen"})
    @@ Of(2, {"_XcptFilter", "_controlfp", "_initterm", "_initterm_e", "_setmode", "calloc",
        "fputc", "fputs", "putc", "realloc", "setlocale", "signal"})
    @@ Of(3, {"__dllonexit", "_controlfp_s", "memcmp", "memcpy", "memmove", "memset"})
    @@ Of(4, {"__C_specific_handler", "fwrite"})
    @@ Of(5, {"__getmainargs", "__wgetmainargs"})
    @@ Of(6, {"_beginthreadex"})
Prototype == Stdcall @@ Cdecl
=============================================================================
