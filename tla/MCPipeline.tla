----------------------------- MODULE MCPipeline -----------------------------
(* Pipeline with the settings a run may be started with fixed for TLC.      *)
EXTENDS PipelineProofs

\* One setting per pair of buffer size and number of buffers, to plot with ...
Plotting(sizes) ==
  [buffer : sizes, async_io : BOOLEAN, benchmark : {FALSE}]

\* ... and a benchmark with each number of buffers.
Benchmarks(sizes) ==
  [buffer : sizes, async_io : BOOLEAN, benchmark : {TRUE}]

\* Buffers that divide the plot and buffers that leave a remainder.
MixedTasks == Plotting({2, 3}) \cup Benchmarks({2})

\* A buffer smaller than the plot: most chunks, most markers.
SmallTasks == Plotting({1, 2})
=============================================================================
